---- MODULE Spec2Model ----
(***************************************************************************)
(* Verification model of the sparse column-reduction core of OAT (solar):  *)
(*   rings/field_prime.rs, rings/ring_native.rs    coefficient structures  *)
(*   vectors/vector_transforms.rs                  Scale, Gather, DropZeros*)
(*   matrix_factorization/vec_of_vec.rs            clear_if_in, clear_cols,*)
(*                                                 right_reduce            *)
(*   utilities/heaps/heap.rs                       sift_down, heapify, ... *)
(*   utilities/iterators/hit_merge.rs              HitMerge                *)
(*                                                                         *)
(* A sparse vector is a sequence of entries <<key, val>>.  Coefficients of *)
(* the ring "GF2" are booleans; of "Z3" the integers mod 3 (the native     *)
(* division ring instantiated at a prime-field element type); of "Q" the   *)
(* normalised fractions <<numerator, denominator>> (Ratio); of "Float" the *)
(* binary floating-point numbers (f64) with the significand cut down to    *)
(* FloatBits bits, held as the fraction they equal.                        *)
(***************************************************************************)
EXTENDS Integers, Sequences, FiniteSets, TLC

VARIABLES
    ring,            \* the RingOperator handed to the call
    matrix,          \* right_reduce: matrix;  clear_cols: clearee_matrix
    matrix0,         \* the matrix as it was when the call started
    pivot_hash,      \* right_reduce: pivot_hash (key -> column index)
    clearee_count,   \* right_reduce: index of the column being reduced
    clearee,         \* right_reduce / clear_if_in: the working copy
    clearee0,        \* clear_if_in: the clearee as it was at the call;
                     \* transforms: the entries of the innermost iterator
    buffer,          \* right_reduce / clear_if_in: the merge buffer
    clearor,         \* clear_if_in / clear_cols: the clearor column
    pivot_entry,     \* clear_if_in / clear_cols: the pivot entry
    col_ind_2clear,  \* clear_cols: the indices yielded, in order
    last_divisor,    \* right_reduce: the divisor of the latest divide call
    heap,            \* HitMerge.heap: sequence of [head, tail, id];
                     \* heap.rs: the heap vector, elements [head]
    less_than,       \* less_than: "lt", "gt", "abs" or "by_lt"
    inserted,        \* every stream handed to the HitMerge so far, by id;
                     \* heap.rs: the elements handed over;
                     \* transforms: the adaptors stacked
    output,          \* every item next() has returned so far, as <<id, item>>;
                     \* heap.rs: the elements popped;
                     \* transforms: the entries the outermost adaptor yields
    last_next,       \* what the latest next() call returned;
                     \* heap.rs: the latest call
    pc               \* position of the running call

vars == <<ring, matrix, matrix0, pivot_hash, clearee_count, clearee, clearee0,
          buffer, clearor, pivot_entry, col_ind_2clear, last_divisor,
          heap, less_than, inserted, output, last_next, pc>>

(***************************************************************************)
(* Bounds                                                                  *)
(***************************************************************************)
MaxKey == 2        \* keys of the generated columns are 0..MaxKey
MaxLen == 2        \* generated columns hold at most MaxLen entries
MaxCols == 3       \* generated matrices hold at most MaxCols columns
MaxClearLen == 1   \* clear_cols: generated columns hold at most MaxClearLen entries
MaxClearCols == 2  \* clear_cols: clearee_matrix holds at most MaxClearCols columns
MaxInds == 2       \* clear_cols: col_ind_2clear yields at most MaxInds indices
MaxItem == 1       \* HitMerge: stream items are drawn from -MaxItem..MaxItem
MaxStreamLen == 2  \* HitMerge: a stream holds at most MaxStreamLen items
MaxStreams == 3    \* HitMerge: at most MaxStreams streams are handed over in all
MaxHeapLen == 6    \* heap: a heap vector holds at most MaxHeapLen elements
MaxAdaptors == 2   \* transforms: at most MaxAdaptors adaptors are stacked on a stream
FloatBits == 3     \* "Float": the significand holds FloatBits bits
MaxCalls == 2      \* rings: at most MaxCalls ring operations are called in a row

Keys == 0..MaxKey

(***************************************************************************)
(* Coefficient structures                                                  *)
(***************************************************************************)

\* ---- GF2 (rings/field_prime.rs) ----
GF2_is_0(x) == ~x
GF2_is_1(x) == x
GF2_zero == FALSE
GF2_one == TRUE
GF2_add(x, y) == x # y
GF2_multiply(x, y) == x /\ y
GF2_subtract(x, y) == x # y
GF2_negate(x) == x
\* mutant of GF2_divide: the divisor is taken into account
GF2_divide_ByDivisor(x, y) == x /\ y
GF2_divide(x, y) == x
GF2_invert(x) == x

\* ---- fractions: the element type Ratio of the native division ring ----
Abs(n) == IF n < 0 THEN 0 - n ELSE n

RECURSIVE Gcd(_, _)
Gcd(a, b) == IF b = 0 THEN a ELSE Gcd(b, a % b)

Ratio(n, d) ==
    LET g == Gcd(Abs(n), Abs(d))
        s == IF d < 0 THEN 0 - 1 ELSE 1
    IN  <<(s * n) \div g, (s * d) \div g>>

\* ---- floating point: the element type f64 of the native division ring ----
RECURSIVE Pow2(_)
Pow2(n) == IF n = 0 THEN 1 ELSE 2 * Pow2(n - 1)

\* n/d > 0 rounded to the nearest number with a significand of FloatBits
\* bits, ties to the even significand (the exponent range is not modelled)
RECURSIVE RoundPos(_, _)
RoundPos(n, d) ==
    IF n >= Pow2(FloatBits) * d
    THEN LET h == RoundPos(n, 2 * d) IN Ratio(2 * h[1], h[2])
    ELSE IF n < Pow2(FloatBits - 1) * d
    THEN LET h == RoundPos(2 * n, d) IN Ratio(h[1], 2 * h[2])
    ELSE LET q == n \div d
             rem == n % d
             up == 2 * rem > d \/ (2 * rem = d /\ q % 2 = 1)
         IN  <<IF up THEN q + 1 ELSE q, 1>>

\* the result of an f64 operation whose exact value is the fraction x
RoundFloat(x) ==
    IF x[1] = 0 THEN x
    ELSE IF x[1] < 0
    THEN LET h == RoundPos(0 - x[1], x[2]) IN <<0 - h[1], h[2]>>
    ELSE RoundPos(x[1], x[2])

\* ---- NativeDivisionRing (rings/ring_native.rs), Element = Z/3, Ratio or f64 ----
Native_is_0(r, x) == IF r = "Z3" THEN x = 0 ELSE x[1] = 0
Native_is_1(r, x) == IF r = "Z3" THEN x = 1 ELSE x = <<1, 1>>
Native_zero(r) == IF r = "Z3" THEN 0 ELSE <<0, 1>>
Native_one(r) == IF r = "Z3" THEN 1 ELSE <<1, 1>>
Native_add(r, x, y) ==
    IF r = "Z3" THEN (x + y) % 3
    ELSE IF r = "Float" THEN RoundFloat(Ratio(x[1] * y[2] + y[1] * x[2], x[2] * y[2]))
    ELSE Ratio(x[1] * y[2] + y[1] * x[2], x[2] * y[2])
Native_multiply(r, x, y) ==
    IF r = "Z3" THEN (x * y) % 3
    ELSE IF r = "Float" THEN RoundFloat(Ratio(x[1] * y[1], x[2] * y[2]))
    ELSE Ratio(x[1] * y[1], x[2] * y[2])
Native_subtract(r, x, y) ==
    IF r = "Z3" THEN (x + 3 - y) % 3
    ELSE IF r = "Float" THEN RoundFloat(Ratio(x[1] * y[2] - y[1] * x[2], x[2] * y[2]))
    ELSE Ratio(x[1] * y[2] - y[1] * x[2], x[2] * y[2])
Native_negate(r, x) ==
    IF r = "Z3" THEN (3 - x) % 3
    ELSE <<0 - x[1], x[2]>>
\* x / y; only evaluated for a non-zero y (a zero y panics, see DividePanics)
Native_divide(r, x, y) ==
    IF r = "Z3" THEN CHOOSE z \in 0..2 : (z * y) % 3 = x
    ELSE IF r = "Float" THEN RoundFloat(Ratio(x[1] * y[2], x[2] * y[1]))
    ELSE Ratio(x[1] * y[2], x[2] * y[1])
Native_invert(r, x) == Native_divide(r, Native_one(r), x)

\* ---- the traits Semiring / Ring / DivisionRing (rings/ring.rs) ----
is_0(r, x) == IF r = "GF2" THEN GF2_is_0(x) ELSE Native_is_0(r, x)
is_1(r, x) == IF r = "GF2" THEN GF2_is_1(x) ELSE Native_is_1(r, x)
zero(r) == IF r = "GF2" THEN GF2_zero ELSE Native_zero(r)
one(r) == IF r = "GF2" THEN GF2_one ELSE Native_one(r)
add(r, x, y) == IF r = "GF2" THEN GF2_add(x, y) ELSE Native_add(r, x, y)
multiply(r, x, y) ==
    IF r = "GF2" THEN GF2_multiply(x, y) ELSE Native_multiply(r, x, y)
subtract(r, x, y) ==
    IF r = "GF2" THEN GF2_subtract(x, y) ELSE Native_subtract(r, x, y)
negate(r, x) == IF r = "GF2" THEN GF2_negate(x) ELSE Native_negate(r, x)
divide(r, x, y) ==
    IF r = "GF2" THEN GF2_divide(x, y) ELSE Native_divide(r, x, y)
invert(r, x) == IF r = "GF2" THEN GF2_invert(x) ELSE Native_invert(r, x)

\* The element division of the native rings (integers mod p, Ratio) stops
\* fatally on a zero divisor; GF2::divide ignores its divisor.
DividePanics(r, y) == r # "GF2" /\ Native_is_0(r, y)

\* PartialOrd of the coefficient type (bool: false < true)
ValLt(r, x, y) ==
    IF r = "GF2" THEN ~x /\ y
    ELSE IF r = "Z3" THEN x < y
    ELSE x[1] * y[2] < y[1] * x[2]

(***************************************************************************)
(* Vector entries and the iterator transforms                              *)
(***************************************************************************)
key(e) == e[1]
val(e) == e[2]

\* (Key, Val) tuples compare lexicographically; a <= b
EntryLe(r, a, b) ==
    \/ key(a) < key(b)
    \/ key(a) = key(b) /\ ~ValLt(r, val(b), val(a))

\* mutant of merge: the left stream is emitted whole before the right one
merge_LeftFirst(r, a, b) == a \o b

\* itertools::merge(a, b): the smaller head first, the left one on a tie
RECURSIVE merge(_, _, _)
merge(r, a, b) ==
    IF a = <<>> THEN b
    ELSE IF b = <<>> THEN a
    ELSE IF EntryLe(r, Head(a), Head(b))
         THEN <<Head(a)>> \o merge(r, Tail(a), b)
         ELSE <<Head(b)>> \o merge(r, a, Tail(b))

\* mutant of Scale: the first upstream entry is consumed but not emitted
Scale_SkipsFirst(unscaled, r, scale) ==
    [i \in 1..(Len(unscaled) - 1) |->
        <<key(unscaled[i + 1]), multiply(r, val(unscaled[i + 1]), scale)>>]

\* Scale::next applied until the stream ends
Scale(unscaled, r, scale) ==
    [i \in 1..Len(unscaled) |->
        <<key(unscaled[i]), multiply(r, val(unscaled[i]), scale)>>]

\* mutant of GatherRun: one peeked entry at most is absorbed
GatherRun_OnePeek(x, ungathered, r) ==
    IF ungathered # <<>> /\ key(Head(ungathered)) = key(x)
    THEN <<<<key(x), add(r, val(x), val(Head(ungathered)))>>, Tail(ungathered)>>
    ELSE <<x, ungathered>>

\* the inner while loop of Gather::next: absorb the peeked entries with x's key
RECURSIVE GatherRun(_, _, _)
GatherRun(x, ungathered, r) ==
    IF ungathered # <<>> /\ key(Head(ungathered)) = key(x)
    THEN GatherRun(<<key(x), add(r, val(x), val(Head(ungathered)))>>,
                   Tail(ungathered), r)
    ELSE <<x, ungathered>>

\* mutant of Gather: the entries of a run after its first are left out
RECURSIVE Gather_KeepsFirst(_, _)
Gather_KeepsFirst(ungathered, r) ==
    IF ungathered = <<>> THEN <<>>
    ELSE LET g == GatherRun(Head(ungathered), Tail(ungathered), r)
         IN  <<Head(ungathered)>> \o Gather_KeepsFirst(g[2], r)

\* Gather::next applied until the stream ends
RECURSIVE Gather(_, _)
Gather(ungathered, r) ==
    IF ungathered = <<>> THEN <<>>
    ELSE LET g == GatherRun(Head(ungathered), Tail(ungathered), r)
         IN  <<g[1]>> \o Gather(g[2], r)

\* mutant of DropZeros: a call of next skips one zero entry at most
RECURSIVE DropZeros_SkipsOneZero(_, _)
DropZeros_SkipsOneZero(undropped, r) ==
    IF undropped = <<>> THEN <<>>
    ELSE IF is_0(r, val(Head(undropped)))
         THEN IF Tail(undropped) = <<>> THEN <<>>
              ELSE <<undropped[2]>>
                   \o DropZeros_SkipsOneZero(Tail(Tail(undropped)), r)
         ELSE <<Head(undropped)>> \o DropZeros_SkipsOneZero(Tail(undropped), r)

\* mutant of DropZeros: no entry is skipped
DropZeros_KeepsAll(undropped, r) == undropped

\* DropZeros::next applied until the stream ends
RECURSIVE DropZeros(_, _)
DropZeros(undropped, r) ==
    IF undropped = <<>> THEN <<>>
    ELSE IF is_0(r, val(Head(undropped)))
         THEN DropZeros(Tail(undropped), r)
         ELSE <<Head(undropped)>> \o DropZeros(Tail(undropped), r)

\* merge(..).peekable().gather(..).drop_zeros(..) collected into the buffer
Merged(r, a_clearee, a_clearor, scalar) ==
    DropZeros(Gather(merge(r, a_clearee, Scale(a_clearor, r, scalar)), r), r)

Last(s) == s[Len(s)]


(***************************************************************************)
(* Generated inputs                                                        *)
(***************************************************************************)
RingVals(r) ==
    IF r = "GF2" THEN BOOLEAN
    ELSE IF r = "Float" THEN {<<0, 1>>, <<3, 1>>, <<5, 1>>, <<8, 1>>}
    ELSE 0..2
NonZeroVals(r) == {x \in RingVals(r) : ~is_0(r, x)}

\* the sequences over C of length at most n
RECURSIVE SeqsUpTo(_, _)
SeqsUpTo(C, n) ==
    IF n = 0 THEN {<<>>}
    ELSE LET P == SeqsUpTo(C, n - 1)
         IN  P \cup {Append(m, c) : m \in {x \in P : Len(x) = n - 1}, c \in C}

\* columns sorted strictly ascending by key, keys in k..MaxKey, values drawn
\* from V, at most n entries
RECURSIVE ColsFrom(_, _, _)
ColsFrom(k, V, n) ==
    IF k > MaxKey \/ n = 0 THEN {<<>>}
    ELSE ColsFrom(k + 1, V, n)
         \cup {<<<<k, v>>>> \o c : v \in V, c \in ColsFrom(k + 1, V, n - 1)}

SortedCols(V) == ColsFrom(0, V, MaxLen)

Matrices(C) == SeqsUpTo(C, MaxCols)

Q(n) == <<n, 1>>

\* the matrix of the documentation example of right_reduce
DocMatrix ==
    << <<<<2, Q(1)>>, <<3, Q(0 - 1)>>>>,
       <<<<2, Q(1)>>, <<3, Q(1)>>>>,
       <<<<1, Q(1)>>, <<2, Q(1)>>>>,
       <<<<0, Q(1)>>, <<1, Q(1)>>>>,
       <<<<0, Q(1)>>>> >>

\* the matrix of tests::test
TestMatrix ==
    << <<<<2, Q(1)>>, <<3, Q(0 - 1)>>>>,
       <<<<2, Q(0 - 1)>>, <<3, Q(2)>>>>,
       <<<<1, Q(1)>>, <<2, Q(1)>>>>,
       <<<<0, Q(1)>>, <<1, Q(1)>>>>,
       <<<<0, Q(1)>>>> >>

(***************************************************************************)
(* right_reduce (matrix_factorization/vec_of_vec.rs)                       *)
(***************************************************************************)
clearVars == <<clearee0, clearor, pivot_entry, col_ind_2clear>>
hitVars == <<heap, less_than, inserted, output, last_next>>

ClearIdle ==
    /\ clearee0 = <<>>
    /\ clearor = <<>>
    /\ pivot_entry = <<>>
    /\ col_ind_2clear = <<>>

HitIdle ==
    /\ heap = <<>>
    /\ less_than = "lt"
    /\ inserted = <<>>
    /\ output = <<>>
    /\ last_next = "none"

ReduceIdle ==
    /\ pivot_hash = <<>>
    /\ clearee_count = 0
    /\ last_divisor = "none"

\* before any call: the library is instantiated at one coefficient structure
\* (a type parameter), or at none where only the iterator utilities are used;
\* nothing has been handed to it yet
Init ==
    /\ ring \in {"GF2", "Z3", "Q", "Float", "none"}
    /\ matrix = <<>>
    /\ matrix0 = <<>>
    /\ clearee = <<>>
    /\ buffer = <<>>
    /\ pc = "idle"
    /\ ReduceIdle
    /\ ClearIdle
    /\ HitIdle

\* the caller invokes right_reduce(&mut matrix, ring): pivot_hash and buffer
\* are created empty
RR_Call ==
    /\ pc = "idle"
    /\ \/ /\ ring \in {"GF2", "Z3"}
          /\ matrix' \in Matrices(SortedCols(NonZeroVals(ring)))
       \/ /\ ring = "Q"
          /\ matrix' \in {DocMatrix, TestMatrix}
    /\ matrix0' = matrix'
    /\ pivot_hash' = <<>>
    /\ buffer' = <<>>
    /\ pc' = "rr_for"
    /\ UNCHANGED <<ring, clearee_count, clearee, last_divisor, clearVars,
                   hitVars>>

\* mutant of HasClearor: a hit on column index 0 is taken for "no clearor"
HasClearor_SkipsColumn0(a_clearee, a_hash) ==
    /\ a_clearee # <<>>
    /\ key(Last(a_clearee)) \in DOMAIN a_hash
    /\ a_hash[key(Last(a_clearee))] # 0

\* while let Some(clearee_entry) = clearee.last()
\*     if let Some(clearor_index) = pivot_hash.get(&clearee_entry.key())
HasClearor(a_clearee, a_hash) ==
    /\ a_clearee # <<>>
    /\ key(Last(a_clearee)) \in DOMAIN a_hash

\* mutant of ClearScalar: the entry to clear is not negated
ClearScalar_NoNegate(r, entry_val, pivot_val) ==
    divide(r, entry_val, pivot_val)

\* the scalar of one clearing step
ClearScalar(r, entry_val, pivot_val) ==
    divide(r, negate(r, entry_val), pivot_val)

\* mutant of PivotInsert: the key of the first entry is recorded
PivotInsert_FirstKey(a_hash, a_clearee, c) ==
    (key(Head(a_clearee)) :> c) @@ a_hash

\* pivot_hash.insert(pivot_entry.key(), clearee_count)
PivotInsert(a_hash, a_clearee, c) ==
    (key(Last(a_clearee)) :> c) @@ a_hash

\* for clearee_count in 0..matrix.len():  clearee = matrix[clearee_count].clone()
RR_NextColumn ==
    /\ pc = "rr_for"
    /\ clearee_count < Len(matrix)
    /\ clearee' = matrix[clearee_count + 1]
    /\ pc' = "rr_while"
    /\ UNCHANGED <<ring, matrix, matrix0, pivot_hash, clearee_count, buffer,
                   last_divisor, clearVars, hitVars>>

\* the for loop is over: return pivot_hash
RR_Return ==
    /\ pc = "rr_for"
    /\ clearee_count = Len(matrix)
    /\ pc' = "rr_done"
    /\ UNCHANGED <<ring, matrix, matrix0, pivot_hash, clearee_count, clearee,
                   buffer, last_divisor, clearVars, hitVars>>

\* mutant of RR_Clear: the column is rewritten in the matrix at every step
RR_Clear_InPlace ==
    /\ pc = "rr_while"
    /\ HasClearor(clearee, pivot_hash)
    /\ matrix[pivot_hash[key(Last(clearee))] + 1] # <<>>
    /\ ~DividePanics(ring, val(Last(matrix[pivot_hash[key(Last(clearee))] + 1])))
    /\ clearee' = Merged(ring, clearee, matrix[pivot_hash[key(Last(clearee))] + 1],
                         ClearScalar(ring, val(Last(clearee)),
                             val(Last(matrix[pivot_hash[key(Last(clearee))] + 1]))))
    /\ last_divisor' = val(Last(matrix[pivot_hash[key(Last(clearee))] + 1]))
    /\ matrix' = [matrix EXCEPT ![clearee_count + 1] = clearee']
    /\ buffer' = <<>>
    /\ UNCHANGED <<ring, matrix0, pivot_hash, clearee_count, pc, clearVars,
                   hitVars>>

\* one iteration of the inner while loop
RR_Clear ==
    /\ pc = "rr_while"
    /\ HasClearor(clearee, pivot_hash)
    /\ LET clearee_entry == Last(clearee)
           clearor_index == pivot_hash[key(clearee_entry)]
           a_clearor == matrix[clearor_index + 1]
       IN  IF a_clearor = <<>>                       \* clearor.last().unwrap()
           THEN /\ pc' = "rr_panic"
                /\ UNCHANGED <<clearee, last_divisor>>
           ELSE IF DividePanics(ring, val(Last(a_clearor)))
           THEN /\ pc' = "rr_panic"
                /\ last_divisor' = val(Last(a_clearor))
                /\ UNCHANGED clearee
           ELSE /\ clearee' = Merged(ring, clearee, a_clearor,
                                ClearScalar(ring, val(clearee_entry),
                                            val(Last(a_clearor))))
                /\ last_divisor' = val(Last(a_clearor))
                /\ pc' = "rr_while"
    /\ buffer' = <<>>
    /\ UNCHANGED <<ring, matrix, matrix0, pivot_hash, clearee_count,
                   clearVars, hitVars>>

\* the loop has exited: update the matrix and the hash map
RR_Finalize ==
    /\ pc = "rr_while"
    /\ ~HasClearor(clearee, pivot_hash)
    /\ matrix' = [matrix EXCEPT ![clearee_count + 1] = clearee]
    /\ pivot_hash' = IF clearee # <<>>
                     THEN PivotInsert(pivot_hash, clearee, clearee_count)
                     ELSE pivot_hash
    /\ clearee' = <<>>
    /\ clearee_count' = clearee_count + 1
    /\ pc' = "rr_for"
    /\ UNCHANGED <<ring, matrix0, buffer, last_divisor, clearVars, hitVars>>

NextReduce ==
    \/ RR_Call
    \/ RR_NextColumn
    \/ RR_Clear
    \/ RR_Finalize
    \/ RR_Return

SpecReduce == Init /\ [][NextReduce]_vars


(***************************************************************************)
(* Properties of right_reduce                                              *)
(***************************************************************************)
Injective(f) == \A a, b \in DOMAIN f : f[a] = f[b] => a = b

\* C1: during right_reduce the pivot map is only ever extended: every step
\* keeps each existing entry with its value, the insert at the finalization of
\* a non-empty column adds exactly one new key (it never lands on a key that is
\* already present), and the map stays a partial injection.
C1_PivotMapOnlyExtended ==
    [][ /\ \A k \in DOMAIN pivot_hash :
              k \in DOMAIN pivot_hash' /\ pivot_hash'[k] = pivot_hash[k]
        /\ (pc = "rr_while" /\ pc' = "rr_for" /\ clearee # <<>>)
              => /\ key(Last(clearee)) \notin DOMAIN pivot_hash
                 /\ Cardinality(DOMAIN pivot_hash')
                      = Cardinality(DOMAIN pivot_hash) + 1
        /\ Injective(pivot_hash') ]_vars

C1_Witness ==
    /\ pc = "rr_done"
    /\ Cardinality(DOMAIN pivot_hash) >= 2
    /\ matrix # matrix0

\* the coefficient a column has at key k (the sum of its entries with key k)
RECURSIVE SumAt(_, _, _)
SumAt(r, col, k) ==
    IF col = <<>> THEN zero(r)
    ELSE add(r, IF key(Head(col)) = k THEN val(Head(col)) ELSE zero(r),
                SumAt(r, Tail(col), k))

\* a column as a dense vector over Keys, and a matrix as a sequence of them
Vec(r, col) == [k \in Keys |-> SumAt(r, col, k)]
Vecs(r, cols) == [c \in 1..Len(cols) |-> Vec(r, cols[c])]

\* the coefficient at key k of  coef[1]*vs[1] + ... + coef[n]*vs[n]
RECURSIVE LinComb(_, _, _, _, _)
LinComb(r, coef, vs, n, k) ==
    IF n = 0 THEN zero(r)
    ELSE add(r, multiply(r, coef[n], vs[n][k]),
                LinComb(r, coef, vs, n - 1, k))

\* vector a[c] is vector b[c] plus a combination of b[1], ..., b[c-1]
IsPlusEarlier(r, a, b, c) ==
    \E coef \in [1..(c - 1) -> RingVals(r)] :
        \A k \in Keys :
            a[c][k] = add(r, b[c][k], LinComb(r, coef, b, c - 1, k))

\* C2: over GF(2) and Z/3, after right_reduce every reduced column equals, as
\* a vector, the original column plus a linear combination of the original
\* columns before it; and every original column is the reduced column plus a
\* combination of the reduced columns before it, so the span of columns 0..c
\* is the same before and after.
C2_ColumnSpacePreserved ==
    (ring \in {"GF2", "Z3"} /\ pc = "rr_done") =>
        LET red == Vecs(ring, matrix)
            org == Vecs(ring, matrix0)
        IN  \A c \in 1..Len(matrix) :
                /\ IsPlusEarlier(ring, red, org, c)
                /\ IsPlusEarlier(ring, org, red, c)

C2_Witness ==
    /\ pc = "rr_done"
    /\ ring = "Z3"
    /\ \E c \in 1..Len(matrix) :
          /\ matrix[c] # matrix0[c]
          /\ Len(matrix[c]) >= 2

DocReduced ==
    << <<<<2, Q(1)>>, <<3, Q(0 - 1)>>>>,
       <<<<2, Q(2)>>>>,
       <<<<1, Q(1)>>>>,
       <<<<0, Q(1)>>>>,
       <<>> >>

\* C3: with exact rational arithmetic right_reduce turns the five columns of
\* the documentation example into [[(2,1),(3,-1)], [(2,2)], [(1,1)], [(0,1)],
\* []] and returns the pivot map {3:0, 2:1, 1:2, 0:3}.
C3_DocExample ==
    (ring = "Q" /\ matrix0 = DocMatrix /\ pc = "rr_done") =>
        /\ matrix = DocReduced
        /\ pivot_hash = (3 :> 0) @@ (2 :> 1) @@ (1 :> 2) @@ (0 :> 3)

C3_Witness ==
    /\ ring = "Q"
    /\ matrix0 = DocMatrix
    /\ pc = "rr_done"
    /\ clearee_count = 5

\* a measure of the work right_reduce has left: the columns not yet finalized
\* first, then the position in the current column (not yet copied, or the key
\* of the clearee's last entry)
RECURSIVE MaxKeyOf(_)
MaxKeyOf(col) ==
    IF col = <<>> THEN 0
    ELSE LET m == MaxKeyOf(Tail(col))
         IN  IF key(Head(col)) > m THEN key(Head(col)) ELSE m

RECURSIVE MaxKeyIn(_)
MaxKeyIn(m) ==
    IF m = <<>> THEN 0
    ELSE LET x == MaxKeyOf(Head(m))
             y == MaxKeyIn(Tail(m))
         IN  IF x > y THEN x ELSE y

Rank(a_pc, a_count, a_clearee) ==
    LET W == MaxKeyIn(matrix0) + 3
        left == Len(matrix0) - a_count
    IN  IF a_pc = "rr_for" THEN left * W + W - 1
        ELSE IF a_pc = "rr_while"
             THEN left * W + (IF a_clearee = <<>> THEN 0
                              ELSE key(Last(a_clearee)) + 1)
        ELSE 0 - 1

\* C4: on sorted, zero-free columns over a field right_reduce terminates:
\* every step of a call strictly decreases a natural-number measure of the
\* work left, the call never stops fatally, and every iteration of the inner
\* clearing loop either empties the clearee or strictly decreases the key of
\* its last entry (so no pivot chain can cycle).
C4_Terminates ==
    [][ /\ pc # "idle" =>
              Rank(pc', clearee_count', clearee') < Rank(pc, clearee_count, clearee)
        /\ pc' # "rr_panic"
        /\ (pc = "rr_while" /\ pc' = "rr_while") =>
              \/ clearee' = <<>>
              \/ key(Last(clearee')) < key(Last(clearee)) ]_vars

C4_Witness ==
    /\ pc = "rr_while"
    /\ clearee # <<>>
    /\ clearee_count + 1 \in 1..Len(matrix)
    /\ Len(matrix[clearee_count + 1]) >= 1
    /\ key(Last(clearee)) < key(Last(matrix[clearee_count + 1]))
    /\ HasClearor(clearee, pivot_hash)


(***************************************************************************)
(* clear_if_in and clear_cols (matrix_factorization/vec_of_vec.rs)         *)
(***************************************************************************)

\* clearee.iter().find(|&x| x.key() == pivot_entry.key()): the position of the
\* first entry with key k, 0 for None
FindEntry(a_clearee, k) ==
    LET I == {i \in 1..Len(a_clearee) : key(a_clearee[i]) = k}
    IN  IF I = {} THEN 0 ELSE CHOOSE i \in I : \A j \in I : i <= j

\* mutant of ClearIfIn: the short circuit on a zero entry is missing
ClearIfIn_NoShortCircuit(r, a_clearor, a_clearee, a_buffer, a_pivot) ==
    LET i == FindEntry(a_clearee, key(a_pivot))
    IN  IF i = 0
        THEN [clearee |-> a_clearee, buffer |-> a_buffer, status |-> "returned"]
        ELSE IF DividePanics(r, val(a_pivot))
        THEN [clearee |-> a_clearee, buffer |-> a_buffer, status |-> "panicked"]
        ELSE [clearee |-> Merged(r, a_clearee, a_clearor,
                             ClearScalar(r, val(a_clearee[i]), val(a_pivot))),
              buffer |-> <<>>,
              status |-> "returned"]

\* clear_if_in(clearor, clearee, buffer, pivot_entry, ring): the clearee and
\* the buffer it leaves, and whether it returned or stopped in the division
ClearIfIn(r, a_clearor, a_clearee, a_buffer, a_pivot) ==
    LET i == FindEntry(a_clearee, key(a_pivot))
    IN  IF i = 0
        THEN [clearee |-> a_clearee, buffer |-> a_buffer, status |-> "returned"]
        ELSE IF is_0(r, val(a_clearee[i]))
        THEN [clearee |-> a_clearee, buffer |-> a_buffer, status |-> "returned"]
        ELSE IF DividePanics(r, val(a_pivot))
        THEN [clearee |-> a_clearee, buffer |-> a_buffer, status |-> "panicked"]
        ELSE [clearee |-> Merged(r, a_clearee, a_clearor,
                             ClearScalar(r, val(a_clearee[i]), val(a_pivot))),
              buffer |-> <<>>,
              status |-> "returned"]

\* mutant of ClearCols: the last index col_ind_2clear yields is not processed
RECURSIVE ClearCols_SkipsLast(_, _, _, _, _, _)
ClearCols_SkipsLast(r, a_clearor, m, a_buffer, inds, a_pivot) ==
    IF Len(inds) <= 1 THEN [matrix |-> m, status |-> "returned"]
    ELSE IF Head(inds) >= Len(m) THEN [matrix |-> m, status |-> "panicked"]
    ELSE LET res == ClearIfIn(r, a_clearor, m[Head(inds) + 1], a_buffer, a_pivot)
         IN  IF res.status = "panicked"
             THEN [matrix |-> m, status |-> "panicked"]
             ELSE ClearCols_SkipsLast(r, a_clearor,
                                      [m EXCEPT ![Head(inds) + 1] = res.clearee],
                                      res.buffer, Tail(inds), a_pivot)

\* the for loop of clear_cols over the indices still to come; indexing a
\* column the matrix does not have stops fatally
RECURSIVE ClearCols(_, _, _, _, _, _)
ClearCols(r, a_clearor, m, a_buffer, inds, a_pivot) ==
    IF inds = <<>> THEN [matrix |-> m, status |-> "returned"]
    ELSE IF Head(inds) >= Len(m) THEN [matrix |-> m, status |-> "panicked"]
    ELSE LET res == ClearIfIn(r, a_clearor, m[Head(inds) + 1], a_buffer, a_pivot)
         IN  IF res.status = "panicked"
             THEN [matrix |-> m, status |-> "panicked"]
             ELSE ClearCols(r, a_clearor,
                            [m EXCEPT ![Head(inds) + 1] = res.clearee],
                            res.buffer, Tail(inds), a_pivot)

\* the three documentation examples of clear_if_in: <<clearor, clearee>>
DocClearInputs ==
    { << <<<<0, Q(1)>>, <<1, Q(1)>>>>,
         <<<<1, Q(1)>>, <<2, Q(1)>>>> >>,
      << <<<<0, Q(1)>>, <<1, Q(1)>>, <<2, Q(0)>>>>,
         <<<<0, Q(0)>>, <<1, Q(0)>>, <<2, Q(1)>>>> >>,
      << <<<<0, Q(1)>>, <<1, Q(1)>>>>,
         <<<<2, Q(1)>>>> >> }

\* the matrix of tests::test_clear_cols
TestClearMatrix ==
    << <<<<0, Q(1)>>, <<1, Q(1)>>, <<2, Q(1)>>>>,
       <<<<1, Q(1)>>, <<2, Q(1)>>>>,
       <<<<0, Q(1)>>, <<1, Q(1)>>>>,
       <<<<0, Q(1)>>, <<2, Q(1)>>>>,
       <<<<0, Q(1)>>, <<1, Q(0)>>, <<2, Q(1)>>>>,
       <<<<0, Q(1)>>, <<1, Q(1)>>, <<2, Q(1)>>>>,
       <<<<0, Q(1)>>, <<1, Q(2)>>, <<2, Q(1)>>>>,
       <<>>,
       <<<<0, Q(1)>>, <<1, Q(1)>>, <<2, Q(1)>>>> >>

TestClearor == <<<<0, Q(1)>>, <<1, Q(1)>>>>

\* the caller invokes clear_if_in on sorted columns that may hold explicit
\* zeros, with any pivot entry and with a buffer that may hold old entries
CI_Call ==
    /\ pc = "idle"
    /\ \/ /\ ring \in {"GF2", "Z3"}
          /\ clearor' \in ColsFrom(0, RingVals(ring), MaxLen)
          /\ clearee' \in ColsFrom(0, RingVals(ring), MaxLen)
          /\ pivot_entry' \in Keys \X RingVals(ring)
       \/ /\ ring = "Q"
          /\ \E ex \in DocClearInputs : clearor' = ex[1] /\ clearee' = ex[2]
          /\ pivot_entry' \in {<<1, Q(1)>>, <<1, Q(0)>>}
    /\ buffer' \in {<<>>, <<<<0, one(ring)>>>>}
    /\ clearee0' = clearee'
    /\ pc' = "ci_called"
    /\ UNCHANGED <<ring, matrix, matrix0, pivot_hash, clearee_count,
                   col_ind_2clear, last_divisor, hitVars>>

\* clear_if_in runs to its return or to its fatal stop
CI_Run ==
    /\ pc = "ci_called"
    /\ LET res == ClearIfIn(ring, clearor, clearee, buffer, pivot_entry)
       IN  /\ clearee' = res.clearee
           /\ buffer' = res.buffer
           /\ pc' = "ci_" \o res.status
    /\ UNCHANGED <<ring, matrix, matrix0, pivot_hash, clearee_count, clearee0,
                   clearor, pivot_entry, col_ind_2clear, last_divisor, hitVars>>

NextClear ==
    \/ CI_Call
    \/ CI_Run

SpecClear == Init /\ [][NextClear]_vars

\* the caller invokes clear_cols; over Z3 the generated matrix columns hold
\* no explicit zeros (the clearor may), over GF2 they may
CC_Call ==
    /\ pc = "idle"
    /\ \/ /\ ring \in {"GF2", "Z3"}
          /\ clearor' \in ColsFrom(0, RingVals(ring), MaxClearLen)
          /\ matrix' \in SeqsUpTo(ColsFrom(0, IF ring = "GF2" THEN RingVals(ring)
                                                ELSE NonZeroVals(ring),
                                           MaxClearLen),
                                  MaxClearCols)
          /\ pivot_entry' \in Keys \X RingVals(ring)
          /\ col_ind_2clear' \in SeqsUpTo(0..Len(matrix'), MaxInds)
       \/ /\ ring = "Q"
          /\ clearor' = TestClearor
          /\ matrix' = TestClearMatrix
          /\ pivot_entry' \in {<<1, Q(1)>>, <<1, Q(0)>>}
          /\ col_ind_2clear' \in {<<1, 2, 3, 4, 5, 6>>, <<6, 5, 5>>, <<9>>}
    /\ matrix0' = matrix'
    /\ pc' = "cc_called"
    /\ UNCHANGED <<ring, pivot_hash, clearee_count, clearee, clearee0, buffer,
                   last_divisor, hitVars>>

\* clear_cols runs to its return or to its fatal stop
CC_Run ==
    /\ pc = "cc_called"
    /\ LET res == ClearCols(ring, clearor, matrix, <<>>, col_ind_2clear,
                            pivot_entry)
       IN  /\ matrix' = res.matrix
           /\ pc' = "cc_" \o res.status
    /\ UNCHANGED <<ring, matrix0, pivot_hash, clearee_count, clearee,
                   clearee0, buffer, clearor, pivot_entry, col_ind_2clear,
                   last_divisor, hitVars>>

NextClearCols ==
    \/ CC_Call
    \/ CC_Run

SpecClearCols == Init /\ [][NextClearCols]_vars


(***************************************************************************)
(* Claims about clear_if_in and clear_cols                                 *)
(***************************************************************************)

\* the clearee has an entry with the key of the pivot entry, and the first
\* such entry is non-zero
HasTarget(r, a_clearee, a_pivot) ==
    /\ FindEntry(a_clearee, key(a_pivot)) # 0
    /\ ~is_0(r, val(a_clearee[FindEntry(a_clearee, key(a_pivot))]))

\* C5: whenever the clearee has no entry with the key of pivot_entry, or the
\* entry it has at that key is zero, clear_if_in returns and leaves the
\* clearee (explicit zero entries included) and the clearor unchanged.
C5_NoTargetNoChange ==
    [][ (pc = "ci_called" /\ ~HasTarget(ring, clearee, pivot_entry))
          => /\ pc' = "ci_returned"
             /\ clearee' = clearee
             /\ clearor' = clearor ]_vars

C5_Witness ==
    /\ pc = "ci_returned"
    /\ FindEntry(clearee0, key(pivot_entry)) # 0
    /\ ~HasTarget(ring, clearee0, pivot_entry)
    /\ Len(clearee0) = 2
    /\ clearor # <<>>
    /\ clearee = clearee0

\* the coefficient column a has at key k (zero where it has no entry)
CoefAt(r, a, k) ==
    IF FindEntry(a, k) = 0 THEN zero(r) ELSE val(a[FindEntry(a, k)])

\* the canonical form of clearee + scalar * clearor: one entry per key at
\* which the sum is non-zero, in strictly ascending order of key
RECURSIVE CanonFrom(_, _, _, _, _)
CanonFrom(k, r, a_clearee, a_clearor, scalar) ==
    IF k > MaxKey THEN <<>>
    ELSE LET x == add(r, CoefAt(r, a_clearee, k),
                         multiply(r, CoefAt(r, a_clearor, k), scalar))
         IN  (IF is_0(r, x) THEN <<>> ELSE <<<<k, x>>>>)
             \o CanonFrom(k + 1, r, a_clearee, a_clearor, scalar)

C7_ZeroPivotPanics ==
    [][ (/\ pc = "ci_called"
         /\ HasTarget(ring, clearee, pivot_entry)
         /\ is_0(ring, val(pivot_entry)))
          => /\ pc' = "ci_panicked"
             /\ clearee' = clearee ]_vars

\* the number of times col_ind_2clear yields index c
RECURSIVE Occurrences(_, _)
Occurrences(inds, c) ==
    IF inds = <<>> THEN 0
    ELSE (IF Head(inds) = c THEN 1 ELSE 0) + Occurrences(Tail(inds), c)

\* clear_if_in applied n times to one column
RECURSIVE ClearTimes(_, _, _, _, _)
ClearTimes(n, r, a_clearor, a_clearee, a_pivot) ==
    IF n = 0 THEN a_clearee
    ELSE ClearTimes(n - 1, r, a_clearor,
                    ClearIfIn(r, a_clearor, a_clearee, <<>>, a_pivot).clearee,
                    a_pivot)

\* C8 as stated: clear_cols leaves every column whose index col_ind_2clear
\* yields equal to clear_if_in of that column, leaves every other column
\* unchanged, and keeps the number of columns.
C8_ClearsExactlyYielded ==
    pc = "cc_returned" =>
        /\ Len(matrix) = Len(matrix0)
        /\ \A c \in 1..Len(matrix0) :
              matrix[c] =
                  IF Occurrences(col_ind_2clear, c - 1) > 0
                  THEN ClearIfIn(ring, clearor, matrix0[c], <<>>, pivot_entry).clearee
                  ELSE matrix0[c]

\* C8 amended: when clear_cols returns, every column equals clear_if_in
\* applied to it once for each time col_ind_2clear yields its index (not at
\* all for an index never yielded), and the number of columns is unchanged.
C8_ClearsOncePerYield ==
    pc = "cc_returned" =>
        /\ Len(matrix) = Len(matrix0)
        /\ \A c \in 1..Len(matrix0) :
              matrix[c] = ClearTimes(Occurrences(col_ind_2clear, c - 1), ring,
                                     clearor, matrix0[c], pivot_entry)

C8_Witness ==
    /\ pc = "cc_returned"
    /\ Len(matrix0) = 2
    /\ Occurrences(col_ind_2clear, 0) = 2
    /\ matrix0[1] # ClearIfIn(ring, clearor, matrix0[1], <<>>, pivot_entry).clearee
    /\ matrix[1] # ClearIfIn(ring, clearor, matrix0[1], <<>>, pivot_entry).clearee
    /\ matrix[2] = matrix0[2]


(***************************************************************************)
(* Binary heap in a vector (utilities/heaps/heap.rs); positions count from *)
(* 0 as in the source, so position m is element m + 1 of the sequence      *)
(***************************************************************************)
parent_or_0(m) == IF m = 0 THEN 0 ELSE (m - 1) \div 2

\* Some((n-1)/2); None for 0 is -1
parent(m) == IF m = 0 THEN 0 - 1 ELSE (m - 1) \div 2

child_a(m) == 2 * m + 1

\* the ordering predicates: HitOrderLt, HitOrderGt, the closure
\* |a, b| a.abs() < b.abs() of the hit_merge_by example, and the closure
\* |a, b| a < b
ordering_predicate(p, a, b) ==
    IF p \in {"lt", "by_lt"} THEN a < b
    ELSE IF p = "gt" THEN a > b
    ELSE Abs(a) < Abs(b)

\* the closure |a, b| less_than.ordering_predicate(&a.head, &b.head)
HeadLess(p, x, y) == ordering_predicate(p, x.head, y.head)

\* heap.swap(i, j)
Swap(data, i, j) ==
    [data EXCEPT ![i + 1] = data[j + 1], ![j + 1] = data[i + 1]]

\* mutant of sift_down: the right child is never looked at
RECURSIVE sift_down_LeftOnly(_, _, _)
sift_down_LeftOnly(data, index, p) ==
    LET child == child_a(index)
    IN  IF ~(index < Len(data) /\ child < Len(data)) THEN data
        ELSE IF ~HeadLess(p, data[child + 1], data[index + 1]) THEN data
        ELSE sift_down_LeftOnly(Swap(data, index, child), child, p)

\* sift_down(heap, index, less_than): the while loop, from position index on
RECURSIVE sift_down(_, _, _)
sift_down(data, index, p) ==
    LET child == child_a(index)
        right == child + 1
        c == IF right < Len(data) /\ HeadLess(p, data[right + 1], data[child + 1])
             THEN right ELSE child
    IN  IF ~(index < Len(data) /\ child < Len(data)) THEN data
        ELSE IF ~HeadLess(p, data[c + 1], data[index + 1]) THEN data
        ELSE sift_down(Swap(data, index, c), c, p)

\* mutant of SiftRange: the range stops one short, position lo is not sifted
RECURSIVE SiftRange_StopsShort(_, _, _, _)
SiftRange_StopsShort(data, lo, hi, p) ==
    IF hi <= lo THEN data
    ELSE SiftRange_StopsShort(sift_down(data, hi, p), lo, hi - 1, p)

\* for i in (lo..hi + 1).rev() { sift_down(data, i, less_than) }
RECURSIVE SiftRange(_, _, _, _)
SiftRange(data, lo, hi, p) ==
    IF hi < lo THEN data
    ELSE SiftRange(sift_down(data, hi, p), lo, hi - 1, p)

\* mutant of heapify: the vector is taken as it comes
heapify_AsGiven(data, p) == data

heapify(data, p) ==
    IF data = <<>> THEN data
    ELSE SiftRange(data, 0, (Len(data) \div 2) - 1, p)

\* the while loop of heapify_tail
RECURSIVE HeapifyTailLoop(_, _, _, _)
HeapifyTailLoop(data, left, right, p) ==
    IF right = 0 THEN data
    ELSE HeapifyTailLoop(SiftRange(data, parent_or_0(left), parent_or_0(right), p),
                         parent_or_0(left), parent_or_0(right), p)

\* mutant of heapify_tail: the appended items are left where they are
heapify_tail_LeavesTail(data, p, tail_base) == data

heapify_tail(data, p, tail_base) ==
    IF tail_base >= Len(data) THEN data
    ELSE IF Len(data) < 2 THEN data
    ELSE LET right == Len(data) - 1
             left == IF tail_base > parent(right) THEN tail_base ELSE parent(right)
         IN  HeapifyTailLoop(data, left, right, p)

(***************************************************************************)
(* HitMerge (utilities/iterators/hit_merge.rs).  A HeadTail is a record of *)
(* its head, the items still in its tail, and the number of the stream it  *)
(* was made from (the stream's position in inserted).                      *)
(***************************************************************************)
\* items are unsigned for HitOrderLt and HitOrderGt and signed for the
\* absolute-value closure, as in the documentation examples; the closure
\* |a, b| a < b draws from one more value, so that three streams can have
\* three different heads
Items(p) ==
    IF p = "abs" THEN (0 - MaxItem)..MaxItem
    ELSE IF p = "by_lt" THEN 0..(MaxItem + 1)
    ELSE 0..MaxItem

Streams(p) == SeqsUpTo(Items(p), MaxStreamLen)

\* the collections of at most n streams one call may hand over
Iterables ==
    [p \in {"lt", "gt", "abs", "by_lt"} |-> [n \in 0..MaxStreams |-> SeqsUpTo(Streams(p), n)]]

\* HeadTail::new under filter_map: nothing for an empty stream
HeadTail_new(it, id) ==
    IF it = <<>> THEN <<>>
    ELSE <<[head |-> Head(it), tail |-> Tail(it), id |-> id]>>

\* mutant of Extend: the last stream of the iterable is not pushed
RECURSIVE Extend_SkipsLast(_, _, _)
Extend_SkipsLast(data, iterable, base) ==
    IF Len(iterable) <= 1 THEN data
    ELSE Extend_SkipsLast(data \o HeadTail_new(Head(iterable), base + 1),
                          Tail(iterable), base + 1)

\* heap.extend(iter.filter_map(|it| HeadTail::new(it.into_iter()))), the
\* streams numbered from base + 1
RECURSIVE Extend(_, _, _)
Extend(data, iterable, base) ==
    IF iterable = <<>> THEN data
    ELSE Extend(data \o HeadTail_new(Head(iterable), base + 1), Tail(iterable),
                base + 1)

\* mutant of HeadTail_next: the new head is returned, not the old one
HeadTail_next_ReturnsNew(ht) ==
    IF ht.tail # <<>>
    THEN [some |-> TRUE, item |-> Head(ht.tail),
          self |-> [ht EXCEPT !.head = Head(ht.tail), !.tail = Tail(ht.tail)]]
    ELSE [some |-> FALSE, item |-> ht.head, self |-> ht]

\* HeadTail::next: Some(old head) with the head replaced from the tail, or
\* None when the tail is exhausted
HeadTail_next(ht) ==
    IF ht.tail # <<>>
    THEN [some |-> TRUE, item |-> ht.head,
          self |-> [ht EXCEPT !.head = Head(ht.tail), !.tail = Tail(ht.tail)]]
    ELSE [some |-> FALSE, item |-> ht.head, self |-> ht]

\* mutant of swap_remove_0: the last element is removed, not the first
swap_remove_0_RemovesLast(data) == SubSeq(data, 1, Len(data) - 1)

\* Vec::swap_remove(0): the last element takes the place of the first
swap_remove_0(data) ==
    IF Len(data) = 1 THEN <<>>
    ELSE <<Last(data)>> \o SubSeq(data, 2, Len(data) - 1)

\* hit_merge_by_predicate(iterable, less_than)
hit_merge_by_predicate(iterable, p) ==
    /\ heap' = heapify(Extend(<<>>, iterable, 0), p)
    /\ less_than' = p
    /\ inserted' = [i \in 1..Len(iterable) |-> [stream |-> iterable[i], bulk |-> FALSE]]
    /\ output' = <<>>
    /\ last_next' = "none"
    /\ pc' = "hit"
    /\ UNCHANGED <<ring, matrix, matrix0, pivot_hash, clearee_count, clearee,
                   buffer, last_divisor, clearVars>>

hit_merge_by ==
    /\ pc = "idle"
    /\ ring = "none"
    /\ \E iterable \in Iterables["abs"][MaxStreams] :
          hit_merge_by_predicate(iterable, "abs")

\* hit_merge_by with the closure |a, b| a < b
hit_merge_by_lt ==
    /\ pc = "idle"
    /\ ring = "none"
    /\ \E iterable \in Iterables["by_lt"][MaxStreams] :
          hit_merge_by_predicate(iterable, "by_lt")

hit_merge_ascend ==
    /\ pc = "idle"
    /\ ring = "none"
    /\ \E iterable \in Iterables["lt"][MaxStreams] :
          hit_merge_by_predicate(iterable, "lt")

hit_merge_descend ==
    /\ pc = "idle"
    /\ ring = "none"
    /\ \E iterable \in Iterables["gt"][MaxStreams] :
          hit_merge_by_predicate(iterable, "gt")

\* the body of HitMerge::next on a non-empty heap: the heap it leaves and
\* the item it returns, with the number of the stream the item came from
NextOf(data, p) ==
    LET nxt == HeadTail_next(data[1])
        shrunk == IF nxt.some THEN [data EXCEPT ![1] = nxt.self]
                  ELSE swap_remove_0(data)
    IN  [heap |-> sift_down(shrunk, 0, p), item |-> nxt.item, id |-> data[1].id]

\* HitMerge::next
HitMerge_next ==
    /\ pc = "hit"
    /\ IF heap = <<>>
       THEN /\ last_next' = "None"
            /\ UNCHANGED <<heap, output>>
       ELSE LET nxt == NextOf(heap, less_than)
            IN  /\ heap' = nxt.heap
                /\ output' = Append(output, <<nxt.id, nxt.item>>)
                /\ last_next' = "Some"
    /\ UNCHANGED <<ring, matrix, matrix0, pivot_hash, clearee_count, clearee,
                   buffer, last_divisor, clearVars, less_than, inserted, pc>>

\* hit_bulk_insert(merged, iterable)
hit_bulk_insert ==
    /\ pc = "hit"
    /\ Len(inserted) < MaxStreams
    /\ \E iterable \in Iterables[less_than][MaxStreams - Len(inserted)] \ {<<>>} :
          LET tail_base == Len(heap)
          IN  /\ heap' = heapify_tail(Extend(heap, iterable, Len(inserted)),
                                      less_than, tail_base)
              /\ inserted' = inserted \o
                     [i \in 1..Len(iterable) |-> [stream |-> iterable[i], bulk |-> TRUE]]
    /\ UNCHANGED <<ring, matrix, matrix0, pivot_hash, clearee_count, clearee,
                   buffer, last_divisor, clearVars, less_than, output, last_next,
                   pc>>

NextHit ==
    \/ hit_merge_by
    \/ hit_merge_ascend
    \/ hit_merge_descend
    \/ HitMerge_next
    \/ hit_bulk_insert

SpecHit == Init /\ [][NextHit]_vars

\* a HitMerge made by hit_merge_ascend or hit_merge_descend
NextHitOrd ==
    \/ hit_merge_ascend
    \/ hit_merge_descend
    \/ HitMerge_next
    \/ hit_bulk_insert

SpecHitOrd == Init /\ [][NextHitOrd]_vars

\* a HitMerge made by hit_merge_by with the closure |a, b| a < b
NextHitBy ==
    \/ hit_merge_by_lt
    \/ HitMerge_next
    \/ hit_bulk_insert

SpecHitBy == Init /\ [][NextHitBy]_vars


(***************************************************************************)
(* Claims about HitMerge                                                   *)
(***************************************************************************)

\* no item of s is followed, anywhere later in s, by an item that the
\* predicate puts strictly before it
SortedBy(p, s) ==
    \A i \in 1..Len(s) : \A j \in (i + 1)..Len(s) :
        ~ordering_predicate(p, s[j], s[i])

\* the items next() has returned so far
OutputItems == [i \in 1..Len(output) |-> output[i][2]]

\* the items next() has returned so far out of stream id
RECURSIVE ItemsOf(_, _)
ItemsOf(out, id) ==
    IF out = <<>> THEN <<>>
    ELSE (IF Head(out)[1] = id THEN <<Head(out)[2]>> ELSE <<>>)
         \o ItemsOf(Tail(out), id)

RECURSIVE TotalLen(_)
TotalLen(ins) ==
    IF ins = <<>> THEN 0 ELSE Len(Head(ins).stream) + TotalLen(Tail(ins))

\* C9: when every stream handed to hit_merge_by, hit_merge_ascend or
\* hit_merge_descend at construction is sorted with respect to the ordering
\* predicate, the fully drained output is sorted with respect to it.
C9_SortedStreamsMergeSorted ==
    (/\ pc = "hit"
     /\ heap = <<>>
     /\ \A i \in 1..Len(inserted) :
           /\ ~inserted[i].bulk
           /\ SortedBy(less_than, inserted[i].stream))
    => SortedBy(less_than, OutputItems)

C9_Witness ==
    /\ pc = "hit"
    /\ heap = <<>>
    /\ less_than = "abs"
    /\ Len(inserted) = 3
    /\ \A i \in 1..3 :
          /\ ~inserted[i].bulk
          /\ Len(inserted[i].stream) = 2
          /\ SortedBy(less_than, inserted[i].stream)
          /\ inserted[i].stream[1] # inserted[i].stream[2]
    /\ Len(output) = 6
    /\ output[1][1] # output[2][1]
    /\ output[2][1] # output[3][1]

\* C10: for any streams, sorted or not, and any interleaving of next() and
\* hit_bulk_insert() calls, the fully drained output is an interleaving of
\* the inserted streams: every item comes out of an inserted stream, the
\* items of each stream come out exactly once and in the stream's order,
\* and a single stream comes out unchanged.
C10_DrainedIsInterleaving ==
    (pc = "hit" /\ heap = <<>>)
    => /\ \A i \in 1..Len(output) : output[i][1] \in 1..Len(inserted)
       /\ \A id \in 1..Len(inserted) : ItemsOf(output, id) = inserted[id].stream
       /\ Len(output) = TotalLen(inserted)
       /\ Len(inserted) = 1 => OutputItems = inserted[1].stream

C10_Witness ==
    /\ pc = "hit"
    /\ heap = <<>>
    /\ Len(inserted) = 3
    /\ ~inserted[1].bulk
    /\ inserted[3].bulk
    /\ \E i \in 1..3 : ~SortedBy(less_than, inserted[i].stream)
    /\ ~SortedBy(less_than, OutputItems)
    /\ Len(output) >= 5
    /\ \E i \in 1..(Len(output) - 2) :
          /\ output[i][1] = output[i + 2][1]
          /\ output[i][1] # output[i + 1][1]


\* Iterator::collect on a HitMerge: the items next() returns until None
RECURSIVE Collect(_, _)
Collect(data, p) ==
    IF data = <<>> THEN <<>>
    ELSE LET nxt == NextOf(data, p)
         IN  <<nxt.item>> \o Collect(nxt.heap, p)

\* the streams handed over so far, in the order they were handed over
InsertedStreams == [i \in 1..Len(inserted) |-> inserted[i].stream]

\* the number of times item x occurs in s
RECURSIVE CountIn(_, _)
CountIn(s, x) ==
    IF s = <<>> THEN 0
    ELSE (IF Head(s) = x THEN 1 ELSE 0) + CountIn(Tail(s), x)

SameItems(s, t) ==
    /\ Len(s) = Len(t)
    /\ \A i \in 1..Len(s) : CountIn(s, s[i]) = CountIn(t, s[i])

\* C11 as stated: streams handed over in two batches with no next() in
\* between drain to exactly the sequence that handing them all over in one
\* call drains to.
C11_BatchesDrainAlike ==
    (/\ pc = "hit"
     /\ last_next = "none"
     /\ \E i \in 1..Len(inserted) : inserted[i].bulk)
    => Collect(heap, less_than)
         = Collect(heapify(Extend(<<>>, InsertedStreams, 0), less_than), less_than)


\* the heap one call makes of all the streams handed over so far
OneCallHeap == heapify(Extend(<<>>, InsertedStreams, 0), less_than)

\* C11 amended: streams handed over in two batches with no next() in between
\* drain to the same multiset of items as handing them all over in one call
\* (at construction or by one hit_bulk_insert into an empty HitMerge), and to
\* the same sequence when every stream is sorted by less_than and less_than
\* is a strict total order (<, >); for unsorted streams the order may differ.
C11_BatchesDrainSameItems ==
    (/\ pc = "hit"
     /\ last_next = "none"
     /\ \E i \in 1..Len(inserted) : inserted[i].bulk)
    => LET batches == Collect(heap, less_than)
           at_once == Collect(OneCallHeap, less_than)
           by_insert == Collect(heapify_tail(Extend(<<>>, InsertedStreams, 0),
                                             less_than, 0), less_than)
       IN  /\ SameItems(batches, at_once)
           /\ SameItems(batches, by_insert)
           /\ (/\ less_than \in {"lt", "gt", "by_lt"}
               /\ \A i \in 1..Len(inserted) :
                     SortedBy(less_than, inserted[i].stream))
              => batches = at_once /\ batches = by_insert

C11_Witness ==
    /\ pc = "hit"
    /\ last_next = "none"
    /\ Len(inserted) = 3
    /\ ~inserted[2].bulk
    /\ inserted[3].bulk
    /\ \A i \in 1..3 :
          /\ Len(inserted[i].stream) = 2
          /\ SortedBy(less_than, inserted[i].stream)
    /\ heap # OneCallHeap
    /\ Collect(heap, less_than) = Collect(OneCallHeap, less_than)


\* the min-heap property on heads: no slot's head is strictly before the
\* head of its parent slot
HeadsAreHeap(data, p) ==
    \A i \in 1..(Len(data) - 1) :
        ~HeadLess(p, data[i + 1], data[parent(i) + 1])

\* C12: after construction and after every sequence of next() and
\* hit_bulk_insert() calls the heap vector satisfies the min-heap property
\* on heads.
C12_HeapPropertyOnHeads ==
    pc = "hit" => HeadsAreHeap(heap, less_than)

C12_Witness ==
    /\ pc = "hit"
    /\ Len(heap) = 3
    /\ output # <<>>
    /\ inserted[3].bulk
    /\ \E i \in 1..3 : ~SortedBy(less_than, inserted[i].stream)
    /\ HeadLess(less_than, heap[1], heap[2])
    /\ heap[1].id # 1


\* the streams the step hands over: those inserted holds after it and not
\* before it
NewStreams == [i \in 1..(Len(inserted') - Len(inserted)) |->
                  inserted'[Len(inserted) + i].stream]

RECURSIVE Concat(_)
Concat(ss) == IF ss = <<>> THEN <<>> ELSE Head(ss) \o Concat(Tail(ss))

\* a hit_bulk_insert step taken after some item has been emitted
LateInsert ==
    /\ pc = "hit"
    /\ Len(inserted') > Len(inserted)
    /\ output # <<>>

AllSorted(ins) == \A i \in 1..Len(ins) : SortedBy(less_than, ins[i].stream)

\* C13 as stated: when every stream, initial or inserted later, is sorted,
\* the items emitted before a hit_bulk_insert followed by the items emitted
\* after it form one sorted sequence.
C13_LifetimeSorted ==
    [][ (LateInsert /\ AllSorted(inserted'))
          => \A lifetime \in {OutputItems \o Collect(heap', less_than)} :
                SortedBy(less_than, lifetime) ]_vars

\* C13 amended: the same, provided also that no item of a stream inserted
\* later is strictly before (less_than) the item emitted last before its
\* insertion.  Step by step: an insertion of such streams into a HitMerge
\* whose emitted and still to be emitted items form one sorted sequence
\* leaves one whose emitted and still to be emitted items do.
C13_LifetimeSortedIfNotBefore ==
    [][ (/\ LateInsert
         /\ AllSorted(inserted')
         /\ \A news \in {Concat(NewStreams)} : \A i \in 1..Len(news) :
               ~ordering_predicate(less_than, news[i], output[Len(output)][2])
         /\ \A lifetime \in {OutputItems \o Collect(heap, less_than)} :
               SortedBy(less_than, lifetime))
          => \A lifetime \in {OutputItems \o Collect(heap', less_than)} :
                SortedBy(less_than, lifetime) ]_vars

\* a drained run in which sorted streams were inserted after a first item,
\* all of them not before it, and came out in between the older items
C13_Witness ==
    /\ pc = "hit"
    /\ heap = <<>>
    /\ Len(inserted) = 3
    /\ ~inserted[1].bulk
    /\ inserted[2].bulk
    /\ inserted[3].bulk
    /\ AllSorted(inserted)
    /\ Len(output) >= 5
    /\ output[1][1] = 1
    /\ output[2][1] # 1
    /\ output[Len(output)][1] = 1
    /\ OutputItems[1] # OutputItems[Len(output)]
    /\ SortedBy(less_than, OutputItems)


\* the items the streams in the heap have not yet given out
RECURSIVE Remaining(_)
Remaining(data) ==
    IF data = <<>> THEN <<>>
    ELSE <<Head(data).head>> \o Head(data).tail \o Remaining(Tail(data))

\* C14: when hit_bulk_insert is called after some next() calls, the items
\* emitted from then on are exactly the not yet emitted items of the old
\* streams together with all items of the inserted streams, and they come
\* out sorted when every stream is sorted.
C14_EmittedAfterInsert ==
    [][ LateInsert
          => \A from_then_on \in {Collect(heap', less_than)} :
             \A expected \in {Remaining(heap) \o Concat(NewStreams)} :
                /\ SameItems(from_then_on, expected)
                /\ AllSorted(inserted') => SortedBy(less_than, from_then_on) ]_vars

C14_Witness ==
    /\ pc = "hit"
    /\ output # <<>>
    /\ Len(inserted) = 3
    /\ ~inserted[1].bulk
    /\ inserted[2].bulk
    /\ inserted[3].bulk
    /\ inserted[2].stream = <<>>
    /\ Len(inserted[3].stream) = 2
    /\ AllSorted(inserted)
    /\ Len(heap) = 2
    /\ heap[1].id = 3
    /\ heap[1].tail # <<>>
    /\ ordering_predicate(less_than, heap[1].head, output[Len(output)][2])


(***************************************************************************)
(* Heaps of plain elements (utilities/heaps/heap.rs).  An element is a     *)
(* record whose head is the value less_than compares, so that sift_down,   *)
(* heapify and heapify_tail above apply as they are.  The closures are     *)
(* |p, q| p < q of the tests and |p, q| p.abs() < q.abs().                 *)
(***************************************************************************)
Elements(p) == {[head |-> x] : x \in Items(p)}

\* the vectors of at most n elements
Vectors ==
    [p \in {"by_lt", "abs"} |-> [n \in 0..MaxHeapLen |-> SeqsUpTo(Elements(p), n)]]

\* mutant of bulk_insert: the new elements are appended and left in place
bulk_insert_AppendsOnly(data, p, iter) == data \o iter

\* bulk_insert(heap, less_than, iter)
bulk_insert(data, p, iter) ==
    LET base == Len(data)
    IN  heapify_tail(data \o iter, p, base)

\* mutant of pop: the vector is not sifted after the removal
pop_NoSift(data, p) ==
    IF Len(data) = 0 THEN [some |-> FALSE, heap |-> data]
    ELSE [some |-> TRUE, val |-> data[1], heap |-> swap_remove_0(data)]

\* pop(heap, less_than): None, or Some(val) and the vector it leaves
pop(data, p) ==
    IF Len(data) = 0 THEN [some |-> FALSE, heap |-> data]
    ELSE [some |-> TRUE, val |-> data[1],
          heap |-> IF Len(swap_remove_0(data)) > 0
                   THEN sift_down(swap_remove_0(data), 0, p)
                   ELSE swap_remove_0(data)]

heapFrame == <<ring, matrix, matrix0, pivot_hash, clearee_count, clearee,
               buffer, last_divisor, clearVars>>

\* heapify is called on an arbitrary vector
Heap_heapify ==
    /\ pc = "idle"
    /\ ring = "none"
    /\ \E p \in {"by_lt", "abs"} : \E data \in Vectors[p][MaxHeapLen] :
          /\ less_than' = p
          /\ inserted' = data
          /\ heap' = heapify(data, p)
    /\ output' = <<>>
    /\ last_next' = "heapify"
    /\ pc' = "heap"
    /\ UNCHANGED heapFrame

\* heapify_tail is called on the heap with further elements appended, with
\* any tail_base up to the length of the heap
Heap_heapify_tail ==
    /\ pc = "heap"
    /\ \E vecb \in Vectors[less_than][MaxHeapLen - Len(heap)] :
       \E tail_base \in 0..Len(heap) :
          /\ inserted' = inserted \o vecb
          /\ heap' = heapify_tail(heap \o vecb, less_than, tail_base)
    /\ last_next' = "heapify_tail"
    /\ UNCHANGED <<heapFrame, less_than, output, pc>>

\* bulk_insert is called on the heap
Heap_bulk_insert ==
    /\ pc = "heap"
    /\ \E vecb \in Vectors[less_than][MaxHeapLen - Len(heap)] :
          /\ inserted' = inserted \o vecb
          /\ heap' = bulk_insert(heap, less_than, vecb)
    /\ last_next' = "bulk_insert"
    /\ UNCHANGED <<heapFrame, less_than, output, pc>>

\* HeapIterator { heap, less_than }: the heap vector moves into an iterator
HeapIterator_new ==
    /\ pc = "heap"
    /\ inserted' = heap
    /\ last_next' = "none"
    /\ pc' = "heap_iter"
    /\ UNCHANGED <<heapFrame, heap, less_than, output>>

\* HeapIterator::next: one call of pop
HeapIterator_next ==
    /\ pc = "heap_iter"
    /\ last_next # "None"
    /\ LET res == pop(heap, less_than)
       IN  /\ heap' = res.heap
           /\ output' = IF res.some THEN Append(output, res.val) ELSE output
           /\ last_next' = IF res.some THEN "Some" ELSE "None"
    /\ UNCHANGED <<heapFrame, less_than, inserted, pc>>

NextHeap ==
    \/ Heap_heapify
    \/ Heap_heapify_tail
    \/ Heap_bulk_insert
    \/ HeapIterator_new
    \/ HeapIterator_next

SpecHeap == Init /\ [][NextHeap]_vars


Heads(s) == [i \in 1..Len(s) |-> s[i].head]

\* C15: heapify on an arbitrary vector, and heapify_tail and bulk_insert on
\* a vector whose part below tail_base has the min-heap property, leave a
\* permutation of the elements handed over that has the min-heap property
\* throughout.
C15_HeapifyTailMakesHeap ==
    pc = "heap"
    => /\ HeadsAreHeap(heap, less_than)
       /\ SameItems(heap, inserted)

C15_Witness ==
    /\ pc = "heap"
    /\ last_next = "heapify_tail"
    /\ Len(heap) >= 5
    /\ HeadLess(less_than, inserted[5], inserted[1])
    /\ heap[1] = inserted[5]
    /\ HeadLess(less_than, heap[1], heap[2])
    /\ HeadLess(less_than, heap[2], heap[5])

\* C16: the elements pop returns from a heap come in non-decreasing order
\* of less_than, every call leaves a vector with the min-heap property, the
\* elements returned and the elements left are together the elements of the
\* heap, and pop returns None exactly on the empty vector.
C16_PopAscending ==
    pc = "heap_iter"
    => /\ SortedBy(less_than, Heads(output))
       /\ HeadsAreHeap(heap, less_than)
       /\ SameItems(output \o heap, inserted)
       /\ pop(heap, less_than).some = (heap # <<>>)
       /\ last_next = "None" => heap = <<>>

C16_Witness ==
    /\ pc = "heap_iter"
    /\ last_next = "None"
    /\ heap = <<>>
    /\ Len(output) >= 5
    /\ output # inserted
    /\ HeadLess(less_than, output[1], output[3])
    /\ HeadLess(less_than, output[3], output[5])


(***************************************************************************)
(* Scale and DropZeros on their own (vectors/vector_transforms.rs).  A     *)
(* caller stacks adaptors on an entry iterator and collects the outermost  *)
(* one: clearee0 holds the entries of the innermost iterator, inserted the *)
(* adaptors stacked on it, innermost first, and output the entries the     *)
(* outermost adaptor yields.                                               *)
(***************************************************************************)
\* the entry sequences handed over: any keys in any order, zeros included
EntrySeqs ==
    [r \in {"GF2", "Z3", "Float"} |->
        SeqsUpTo(Keys \X RingVals(r), MaxLen + 1)]

\* entry_data of tests::test_2
TestEntries == <<<<1, Q(1)>>, <<2, Q(2)>>, <<3, Q(3)>>, <<3, Q(3)>>, <<4, Q(0)>>>>

\* the scale factors handed over; 2. in tests::test_2
Scalars(r) == IF r = "Q" THEN {Q(2)} ELSE RingVals(r)

vecFrame == <<matrix, matrix0, pivot_hash, clearee_count, clearee, buffer,
              clearor, pivot_entry, col_ind_2clear, last_divisor, heap,
              less_than, last_next>>

\* entry_data.iter().cloned()
VT_iter ==
    /\ pc = "idle"
    /\ \/ /\ ring \in {"GF2", "Z3", "Float"}
          /\ clearee0' \in EntrySeqs[ring]
       \/ /\ ring = "Q"
          /\ clearee0' = TestEntries
    /\ inserted' = <<>>
    /\ output' = clearee0'
    /\ pc' = "vec"
    /\ UNCHANGED <<ring, vecFrame>>

\* .scale(ring, scale)
VT_scale ==
    /\ pc = "vec"
    /\ Len(inserted) < MaxAdaptors
    /\ \E scale \in Scalars(ring) :
          /\ inserted' = Append(inserted, [adaptor |-> "Scale", scale |-> scale])
          /\ output' = Scale(output, ring, scale)
    /\ UNCHANGED <<ring, clearee0, pc, vecFrame>>

\* .drop_zeros(ring)
VT_drop_zeros ==
    /\ pc = "vec"
    /\ Len(inserted) < MaxAdaptors
    /\ inserted' = Append(inserted, [adaptor |-> "DropZeros"])
    /\ output' = DropZeros(output, ring)
    /\ UNCHANGED <<ring, clearee0, pc, vecFrame>>

NextVec ==
    \/ VT_iter
    \/ VT_scale
    \/ VT_drop_zeros

SpecVec == Init /\ [][NextVec]_vars


\* the adaptors stacked are exactly these, innermost first
Stacked(names) ==
    /\ pc = "vec"
    /\ Len(inserted) = Len(names)
    /\ \A i \in 1..Len(names) : inserted[i].adaptor = names[i]

\* scaled of tests::test_2
TestScaled == <<<<1, Q(2)>>, <<2, Q(4)>>, <<3, Q(6)>>, <<3, Q(6)>>, <<4, Q(0)>>>>

\* C17: Scale emits, for each upstream entry (k, v) and in upstream order,
\* exactly one entry (k, multiply(v, factor)): same length, same keys, and
\* entries whose scaled value is zero are emitted like the others.
C17_ScaleOneToOne ==
    Stacked(<<"Scale">>)
    => /\ Len(output) = Len(clearee0)
       /\ \A i \in 1..Len(clearee0) :
             /\ key(output[i]) = key(clearee0[i])
             /\ val(output[i])
                  = multiply(ring, val(clearee0[i]), inserted[1].scale)
       /\ ring = "Q" => output = TestScaled

C17_Witness ==
    /\ Stacked(<<"Scale">>)
    /\ ring = "Z3"
    /\ inserted[1].scale = 2
    /\ Len(output) = 3
    /\ key(output[1]) > key(output[2])
    /\ val(clearee0[1]) = 1
    /\ val(output[1]) = 2
    /\ is_0(ring, val(output[2]))
    /\ ~is_0(ring, val(output[3]))

\* C18 as stated: for every coefficient structure, Scale(Scale(s, a), b)
\* yields the entry sequence Scale(s, multiply(a, b)) yields.
C18_ScaleTwiceIsScaleByProduct ==
    Stacked(<<"Scale", "Scale">>)
    => output = Scale(clearee0, ring,
                      multiply(ring, inserted[1].scale, inserted[2].scale))

\* C18 amended: Scale(Scale(s, a), b) yields, for each entry (k, v) of s
\* in order, the entry (k, multiply(multiply(v, a), b)); where multiply is
\* associative (GF2, the integers mod a prime, fractions) this is the entry
\* sequence of Scale(s, multiply(a, b)).
C18_ScaleTwiceMultipliesTwice ==
    Stacked(<<"Scale", "Scale">>)
    => /\ Len(output) = Len(clearee0)
       /\ \A i \in 1..Len(clearee0) :
             output[i]
               = <<key(clearee0[i]),
                   multiply(ring,
                            multiply(ring, val(clearee0[i]), inserted[1].scale),
                            inserted[2].scale)>>
       /\ ring # "Float"
          => output = Scale(clearee0, ring,
                            multiply(ring, inserted[1].scale, inserted[2].scale))

C18_Witness ==
    /\ Stacked(<<"Scale", "Scale">>)
    /\ ring = "Z3"
    /\ inserted[1].scale = 2
    /\ inserted[2].scale = 2
    /\ Len(output) = 3
    /\ output = clearee0
    /\ val(output[1]) = 2
    /\ val(output[2]) = 1
    /\ key(output[1]) > key(output[3])

NotZero(e) == ~is_0(ring, val(e))

\* dropped of tests::test_2
TestDropped == <<<<1, Q(1)>>, <<2, Q(2)>>, <<3, Q(3)>>, <<3, Q(3)>>>>

\* C19: DropZeros emits exactly the upstream entries whose value is not
\* zero, in upstream order and unchanged, whatever the order of the keys.
C19_DropZerosFilters ==
    Stacked(<<"DropZeros">>)
    => /\ output = SelectSeq(clearee0, NotZero)
       /\ ring = "Q" => output = TestDropped

C19_Witness ==
    /\ Stacked(<<"DropZeros">>)
    /\ ring = "Z3"
    /\ Len(clearee0) = 3
    /\ key(clearee0[1]) > key(clearee0[3])
    /\ is_0(ring, val(clearee0[2]))
    /\ output = <<clearee0[1], clearee0[3]>>
    /\ val(output[1]) # val(output[2])

\* C20: DropZeros(DropZeros(s)) yields the entry sequence DropZeros(s)
\* yields.
C20_DropZerosIdempotent ==
    Stacked(<<"DropZeros", "DropZeros">>)
    => output = DropZeros(clearee0, ring)

C20_Witness ==
    /\ Stacked(<<"DropZeros", "DropZeros">>)
    /\ ring = "GF2"
    /\ Len(clearee0) = 3
    /\ is_0(ring, val(clearee0[1]))
    /\ is_0(ring, val(clearee0[2]))
    /\ output = <<clearee0[3]>>


(***************************************************************************)
(* Gather, and merge -> peekable -> gather -> drop_zeros                   *)
(* (vectors/vector_transforms.rs, matrix_factorization/vec_of_vec.rs).     *)
(* clearor holds the second stream handed to merge.                        *)
(***************************************************************************)
\* s is sorted ascending by key (equal keys may follow each other)
KeySorted(s) == \A i \in 1..(Len(s) - 1) : key(s[i]) <= key(s[i + 1])

\* the streams handed to merge: sorted ascending by key
SortedSeqs ==
    [r \in {"GF2", "Z3"} |->
        {s \in SeqsUpTo(Keys \X RingVals(r), MaxLen) : KeySorted(s)}]

\* merge(entries, other): a second sorted stream is merged into a sorted one
VT_merge ==
    /\ pc = "vec"
    /\ ring \in {"GF2", "Z3"}
    /\ inserted = <<>>
    /\ clearor = <<>>
    /\ Len(clearee0) <= MaxLen
    /\ KeySorted(clearee0)
    /\ \E other \in SortedSeqs[ring] \ {<<>>} :
          /\ clearor' = other
          /\ output' = merge(ring, output, other)
    /\ UNCHANGED <<ring, matrix, matrix0, pivot_hash, clearee_count, clearee,
                   clearee0, buffer, pivot_entry, col_ind_2clear,
                   last_divisor, heap, less_than, inserted, last_next, pc>>

\* .peekable().gather(ring)
VT_gather ==
    /\ pc = "vec"
    /\ Len(inserted) < MaxAdaptors
    /\ inserted' = Append(inserted, [adaptor |-> "Gather"])
    /\ output' = Gather(output, ring)
    /\ UNCHANGED <<ring, clearee0, pc, vecFrame>>

NextGather ==
    \/ VT_iter
    \/ VT_merge
    \/ VT_gather
    \/ VT_drop_zeros

SpecGather == Init /\ [][NextGather]_vars

\* the positions at which a run of equal keys starts
RunStarts(s) == {i \in 1..Len(s) : i = 1 \/ key(s[i]) # key(s[i - 1])}

\* the position at which the j-th run starts, and the one at which it ends
RunStart(s, j) ==
    CHOOSE i \in RunStarts(s) : Cardinality({x \in RunStarts(s) : x <= i}) = j
RunEnd(s, j) ==
    IF j = Cardinality(RunStarts(s)) THEN Len(s) ELSE RunStart(s, j + 1) - 1

\* the values at positions i..j added up from the left
RECURSIVE SumLeft(_, _, _, _)
SumLeft(r, s, i, j) ==
    IF j = i THEN val(s[i]) ELSE add(r, SumLeft(r, s, i, j - 1), val(s[j]))

\* gathered of tests::test_2
TestGathered == <<<<1, Q(1)>>, <<2, Q(2)>>, <<3, Q(6)>>, <<4, Q(0)>>>>

\* C21: Gather emits one entry per maximal run of consecutive upstream
\* entries with equal key, carrying the key and the sum of the run's values;
\* no two consecutive output entries share a key, equal keys that are not
\* adjacent stay apart, and a zero sum is emitted like any other.
C21_GatherSumsRuns ==
    (Stacked(<<"Gather">>) /\ clearor = <<>>)
    => /\ Len(output) = Cardinality(RunStarts(clearee0))
       /\ \A j \in 1..Len(output) :
             output[j] = <<key(clearee0[RunStart(clearee0, j)]),
                           SumLeft(ring, clearee0, RunStart(clearee0, j),
                                   RunEnd(clearee0, j))>>
       /\ \A j \in 1..(Len(output) - 1) : key(output[j]) # key(output[j + 1])
       /\ ring = "Q" => output = TestGathered

C21_Witness ==
    /\ Stacked(<<"Gather">>)
    /\ clearor = <<>>
    /\ ring = "Z3"
    /\ Len(clearee0) = 3
    /\ key(clearee0[1]) = key(clearee0[2])
    /\ key(clearee0[3]) < key(clearee0[1])
    /\ val(clearee0[1]) = 1
    /\ val(clearee0[2]) = 2
    /\ output = <<<<key(clearee0[1]), 0>>, clearee0[3]>>

C21_WitnessApart ==
    /\ Stacked(<<"Gather">>)
    /\ clearor = <<>>
    /\ Len(clearee0) = 3
    /\ key(clearee0[1]) = key(clearee0[3])
    /\ key(clearee0[1]) # key(clearee0[2])
    /\ output = clearee0

\* three consecutive entries with one key were gathered
ThreeGathered ==
    /\ Stacked(<<"Gather">>)
    /\ clearor = <<>>
    /\ Len(clearee0) = 3
    /\ key(clearee0[1]) = key(clearee0[2])
    /\ key(clearee0[2]) = key(clearee0[3])

\* C22 as stated: the value gathered from a run a, b, c is add(add(a,b),c)
\* and is add(a,add(b,c)); gathering the first two and then the third, or
\* the last two and then the first, gives the same single entry.
C22_GatherAnyGrouping ==
    ThreeGathered
    => /\ output = <<<<key(clearee0[1]),
                       add(ring, add(ring, val(clearee0[1]), val(clearee0[2])),
                           val(clearee0[3]))>>>>
       /\ output = <<<<key(clearee0[1]),
                       add(ring, val(clearee0[1]),
                           add(ring, val(clearee0[2]), val(clearee0[3])))>>>>
       /\ output = Gather(Gather(SubSeq(clearee0, 1, 2), ring)
                            \o SubSeq(clearee0, 3, 3), ring)
       /\ output = Gather(SubSeq(clearee0, 1, 1)
                            \o Gather(SubSeq(clearee0, 2, 3), ring), ring)

\* C22 amended: the value gathered from a run a, b, c is add(add(a,b),c),
\* which is also what gathering the first two and then the third gives;
\* where add is associative (GF2, the integers mod a prime, fractions) it is
\* add(a,add(b,c)), which is what gathering the last two first gives.
C22_GatherFoldsFromLeft ==
    ThreeGathered
    => /\ output = <<<<key(clearee0[1]),
                       add(ring, add(ring, val(clearee0[1]), val(clearee0[2])),
                           val(clearee0[3]))>>>>
       /\ output = Gather(Gather(SubSeq(clearee0, 1, 2), ring)
                            \o SubSeq(clearee0, 3, 3), ring)
       /\ Gather(SubSeq(clearee0, 1, 1)
                   \o Gather(SubSeq(clearee0, 2, 3), ring), ring)
            = <<<<key(clearee0[1]),
                  add(ring, val(clearee0[1]),
                      add(ring, val(clearee0[2]), val(clearee0[3])))>>>>
       /\ ring # "Float"
          => output = Gather(SubSeq(clearee0, 1, 1)
                               \o Gather(SubSeq(clearee0, 2, 3), ring), ring)

C22_Witness ==
    /\ ThreeGathered
    /\ ring = "Z3"
    /\ val(clearee0[1]) = 1
    /\ val(clearee0[2]) = 2
    /\ val(clearee0[3]) = 2
    /\ output = <<<<key(clearee0[1]), 2>>>>


\* the values of the entries of s with key k, added up
RECURSIVE KeySum(_, _, _)
KeySum(r, s, k) ==
    IF s = <<>> THEN zero(r)
    ELSE IF key(s[Len(s)]) = k
         THEN add(r, KeySum(r, SubSeq(s, 1, Len(s) - 1), k), val(s[Len(s)]))
         ELSE KeySum(r, SubSeq(s, 1, Len(s) - 1), k)

\* the keys that occur in s
KeysOf(s) == {key(s[i]) : i \in 1..Len(s)}

\* C23: for streams sorted ascending by key, merge -> peekable -> gather ->
\* drop_zeros yields the canonical form of their sum: keys strictly
\* ascending, no zero value, and at every key the sum of all input values at
\* that key (a key whose sum is zero is absent).
C23_PipelineIsCanonicalSum ==
    (/\ Stacked(<<"Gather", "DropZeros">>)
     /\ KeySorted(clearee0)
     /\ KeySorted(clearor))
    => /\ \A i \in 1..(Len(output) - 1) : key(output[i]) < key(output[i + 1])
       /\ \A i \in 1..Len(output) :
             /\ ~is_0(ring, val(output[i]))
             /\ val(output[i]) = KeySum(ring, clearee0 \o clearor, key(output[i]))
       /\ \A k \in KeysOf(clearee0 \o clearor) \ KeysOf(output) :
             is_0(ring, KeySum(ring, clearee0 \o clearor, k))

C23_Witness ==
    /\ Stacked(<<"Gather", "DropZeros">>)
    /\ ring = "Z3"
    /\ Len(clearee0) = 2
    /\ Len(clearor) = 2
    /\ key(clearee0[1]) < key(clearee0[2])
    /\ key(clearor[1]) = key(clearee0[1])
    /\ key(clearor[2]) = key(clearee0[2])
    /\ val(clearee0[1]) = 1
    /\ val(clearor[1]) = 2
    /\ val(clearee0[2]) = 1
    /\ val(clearor[2]) = 1
    /\ output = <<<<key(clearee0[2]), 2>>>>


(***************************************************************************)
(* The operations of GF2 called on their own (rings/field_prime.rs).       *)
(* output holds the calls made so far as [op, args, result].               *)
(***************************************************************************)
\* one call of a ring operation with the given arguments and result
RingCall(op, args, result) ==
    /\ pc \in {"idle", "ring"}
    /\ ring = "GF2"
    /\ Len(output) < MaxCalls
    /\ output' = Append(output, [op |-> op, args |-> args, result |-> result])
    /\ pc' = "ring"
    /\ UNCHANGED <<ring, matrix, matrix0, pivot_hash, clearee_count, clearee,
                   buffer, last_divisor, clearVars, heap, less_than, inserted,
                   last_next>>

Ring_is_0 == \E x \in BOOLEAN : RingCall("is_0", <<x>>, is_0(ring, x))
Ring_is_1 == \E x \in BOOLEAN : RingCall("is_1", <<x>>, is_1(ring, x))
Ring_zero == RingCall("zero", <<>>, zero(ring))
Ring_one == RingCall("one", <<>>, one(ring))
Ring_add ==
    \E x \in BOOLEAN, y \in BOOLEAN : RingCall("add", <<x, y>>, add(ring, x, y))
Ring_multiply ==
    \E x \in BOOLEAN, y \in BOOLEAN :
        RingCall("multiply", <<x, y>>, multiply(ring, x, y))
Ring_subtract ==
    \E x \in BOOLEAN, y \in BOOLEAN :
        RingCall("subtract", <<x, y>>, subtract(ring, x, y))
Ring_negate == \E x \in BOOLEAN : RingCall("negate", <<x>>, negate(ring, x))
\* a call that panics has no result
Ring_divide ==
    \E x \in BOOLEAN, y \in BOOLEAN :
        RingCall("divide", <<x, y>>,
                 IF DividePanics(ring, y) THEN "panic" ELSE divide(ring, x, y))
Ring_invert == \E x \in BOOLEAN : RingCall("invert", <<x>>, invert(ring, x))

NextRing ==
    \/ Ring_is_0
    \/ Ring_is_1
    \/ Ring_zero
    \/ Ring_one
    \/ Ring_add
    \/ Ring_multiply
    \/ Ring_subtract
    \/ Ring_negate
    \/ Ring_divide
    \/ Ring_invert

SpecRing == Init /\ [][NextRing]_vars

Xor(x, y) == (x \/ y) /\ ~(x /\ y)

\* what the two-element field answers to a call
FieldAnswer(op, args) ==
    CASE op = "is_0" -> ~args[1]
      [] op = "is_1" -> args[1]
      [] op = "zero" -> FALSE
      [] op = "one" -> TRUE
      [] op = "add" -> Xor(args[1], args[2])
      [] op = "multiply" -> args[1] /\ args[2]
      [] op = "negate" -> args[1]
      [] op = "subtract" -> add(ring, args[1], negate(ring, args[2]))
      [] op = "invert" -> args[1]
      [] op = "divide" -> IF args[2] THEN multiply(ring, args[1], invert(ring, TRUE))
                          ELSE args[1]

\* C24: GF2 is the two-element field on booleans: add is xor, multiply is
\* and, negate is the identity, subtract(x,y) is add(x, negate(y)), is_0 is
\* not, is_1 is the identity, zero is false, one is true, divide(x, true)
\* is multiply(x, invert(true)) and is x, and divide(x, false) returns x.
C24_GF2IsTheTwoElementField ==
    pc = "ring"
    => \A i \in 1..Len(output) :
          /\ output[i].result = FieldAnswer(output[i].op, output[i].args)
          /\ output[i].op = "divide" => output[i].result = output[i].args[1]

C24_Witness ==
    /\ pc = "ring"
    /\ Len(output) = 2
    /\ output[1] = [op |-> "add", args |-> <<TRUE, TRUE>>, result |-> FALSE]
    /\ output[2] = [op |-> "divide", args |-> <<TRUE, FALSE>>, result |-> TRUE]


(***************************************************************************)
(* right_reduce over GF2 against linear algebra mod 2                      *)
(***************************************************************************)
\* a boolean column as the set of its keys with value true
ColSet(col) == {key(col[i]) : i \in {j \in 1..Len(col) : val(col[j])}}

\* the sum mod 2 of two such columns
XorSets(A, B) == (A \ B) \cup (B \ A)

\* the mod-2 span of a sequence of columns
RECURSIVE Span(_)
Span(cols) ==
    IF cols = <<>> THEN {{}}
    ELSE LET S == Span(SubSeq(cols, 1, Len(cols) - 1))
         IN  S \cup {XorSets(x, ColSet(cols[Len(cols)])) : x \in S}

\* C25: over GF2, on columns sorted strictly ascending whose stored entries
\* are all true, right_reduce returns a pivot map with as many entries as
\* the rank of the matrix mod 2, and column c ends empty exactly when the
\* original column c lies in the mod-2 span of the original columns before it.
C25_PivotsCountRankMod2 ==
    (pc = "rr_done" /\ ring = "GF2")
    => /\ Pow2(Cardinality(DOMAIN pivot_hash)) = Cardinality(Span(matrix0))
       /\ \A c \in 1..Len(matrix0) :
             (matrix[c] = <<>>)
               <=> (ColSet(matrix0[c]) \in Span(SubSeq(matrix0, 1, c - 1)))

C25_Witness ==
    /\ pc = "rr_done"
    /\ ring = "GF2"
    /\ Len(matrix0) = 3
    /\ Cardinality(DOMAIN pivot_hash) = 2
    /\ Len(matrix0[1]) = 2
    /\ Len(matrix0[2]) = 2
    /\ Len(matrix0[3]) = 2
    /\ matrix0[3] # matrix0[1]
    /\ matrix0[3] # matrix0[2]
    /\ matrix[3] = <<>>


(***************************************************************************)
(* right_reduce on any columns sorted ascending by key: a key may repeat   *)
(* within a column and a stored value may be zero                          *)
(***************************************************************************)
RR_CallSorted ==
    /\ pc = "idle"
    /\ ring \in {"GF2", "Z3"}
    /\ matrix' \in SeqsUpTo(SortedSeqs[ring], MaxClearCols)
    /\ matrix0' = matrix'
    /\ pivot_hash' = <<>>
    /\ buffer' = <<>>
    /\ pc' = "rr_for"
    /\ UNCHANGED <<ring, clearee_count, clearee, last_divisor, clearVars,
                   hitVars>>

NextReduceSorted ==
    \/ RR_Call
    \/ RR_CallSorted
    \/ RR_NextColumn
    \/ RR_Clear
    \/ RR_Finalize
    \/ RR_Return

SpecReduceSorted == Init /\ [][NextReduceSorted]_vars

\* right_reduce has been called
InReduce == pc \in {"rr_for", "rr_while", "rr_done", "rr_panic"}

\* C26: at every point of right_reduce and on return, every entry (k -> c)
\* of the pivot map names a non-empty column whose last entry has key k;
\* every finalized non-empty column has its last key in the map, mapped to
\* its own index; finalized empty columns have no map entry; and the
\* finalized non-empty columns have pairwise distinct last keys.
C26_PivotMapMatchesColumns ==
    InReduce
    => /\ \A k \in DOMAIN pivot_hash :
             /\ pivot_hash[k] + 1 \in 1..Len(matrix)
             /\ matrix[pivot_hash[k] + 1] # <<>>
             /\ key(Last(matrix[pivot_hash[k] + 1])) = k
       /\ \A c \in 1..clearee_count :
             IF matrix[c] # <<>>
             THEN /\ key(Last(matrix[c])) \in DOMAIN pivot_hash
                  /\ pivot_hash[key(Last(matrix[c]))] = c - 1
             ELSE \A k \in DOMAIN pivot_hash : pivot_hash[k] # c - 1
       /\ \A c, d \in 1..clearee_count :
             (c # d /\ matrix[c] # <<>> /\ matrix[d] # <<>>)
               => key(Last(matrix[c])) # key(Last(matrix[d]))

C26_Witness ==
    /\ pc = "rr_done"
    /\ ring = "Z3"
    /\ Len(matrix) = 3
    /\ matrix[2] = <<>>
    /\ matrix0[2] # <<>>
    /\ Cardinality(DOMAIN pivot_hash) = 2
    /\ matrix[3] # matrix0[3]
    /\ Len(matrix[1]) = 2

\* C27 as stated: on columns sorted ascending by key, each call of divide
\* has as divisor the value of the last entry of a column recorded in the
\* pivot map, and that divisor is never zero.
C27_DivisorIsNonZeroPivot ==
    [][ (/\ pc = "rr_while"
         /\ HasClearor(clearee, pivot_hash)
         /\ matrix[pivot_hash[key(Last(clearee))] + 1] # <<>>
         /\ \/ pc' = "rr_panic"
            \/ clearee' # clearee
            \/ last_divisor' # last_divisor)
        => /\ \E k \in DOMAIN pivot_hash :
                 last_divisor' = val(Last(matrix[pivot_hash[k] + 1]))
           /\ ~is_0(ring, last_divisor') ]_vars

\* C28: while the inner clearing loop runs no column of the matrix changes;
\* a column changes only at its own finalization; and the columns not yet
\* finalized equal their input.
C28_MatrixWrittenAtFinalization ==
    [][ InReduce
        => /\ Len(matrix') = Len(matrix)
           /\ \A c \in 1..Len(matrix) :
                 matrix'[c] # matrix[c]
                   => /\ pc = "rr_while"
                      /\ pc' = "rr_for"
                      /\ c = clearee_count + 1
                      /\ clearee_count' = c
           /\ \A c \in (clearee_count' + 1)..Len(matrix) :
                 matrix'[c] = matrix0[c]
           /\ clearee_count' \in {clearee_count, clearee_count + 1} ]_vars

C28_Witness ==
    /\ pc = "rr_done"
    /\ Len(matrix) = 3
    /\ matrix[1] = matrix0[1]
    /\ matrix[2] # matrix0[2]
    /\ matrix[3] # matrix0[3]
    /\ matrix[3] # <<>>
    /\ \E k \in DOMAIN pivot_hash : pivot_hash[k] = 2


(***************************************************************************)
(* The slots of a HitMerge                                                 *)
(***************************************************************************)
\* the inserted streams that have not yet emitted their last item
LiveStreams(ins, out) ==
    {i \in 1..Len(ins) : Len(ItemsOf(out, i)) < Len(ins[i].stream)}

\* C29: the heap of a HitMerge has one slot for each inserted stream that
\* has not yet emitted its last item, and none for a stream that was empty
\* when inserted; next() returns None exactly when the heap is empty, and
\* otherwise returns the root's head, shrinking the heap by one slot if the
\* root's tail was exhausted and leaving its length unchanged if not.
C29_SlotsAreLiveStreams ==
    [][ /\ pc' = "hit"
           => /\ Len(heap') = Cardinality(LiveStreams(inserted', output'))
              /\ \A s \in 1..Len(heap') :
                    /\ heap'[s].id \in LiveStreams(inserted', output')
                    /\ inserted'[heap'[s].id].stream # <<>>
        /\ (pc = "hit" /\ inserted' = inserted)
           => IF heap = <<>>
              THEN /\ last_next' = "None"
                   /\ output' = output
                   /\ heap' = <<>>
              ELSE /\ last_next' = "Some"
                   /\ output' = Append(output, <<heap[1].id, heap[1].head>>)
                   /\ Len(heap') = IF heap[1].tail = <<>> THEN Len(heap) - 1
                                   ELSE Len(heap) ]_vars

C29_Witness ==
    /\ pc = "hit"
    /\ Len(inserted) = 3
    /\ inserted[1].stream = <<>>
    /\ Len(inserted[2].stream) = 2
    /\ inserted[3].bulk
    /\ Len(inserted[3].stream) = 1
    /\ Len(output) = 2
    /\ output[2][1] = 3
    /\ Len(heap) = 1
    /\ heap[1].id = 2
    /\ heap[1].tail = <<>>


(***************************************************************************)
(* clear_cols over f64 coefficients                                        *)
(***************************************************************************)

\* the f64 coefficients handed to clear_cols
FloatClearVals == {<<5, 1>>, <<7, 1>>}

\* the caller invokes clear_cols over NativeDivisionRing<f64>, with an entry
\* of the clearor as the pivot entry
CC_CallFloat ==
    /\ pc = "idle"
    /\ ring = "Float"
    /\ clearor' \in ColsFrom(0, FloatClearVals, MaxClearLen)
    /\ matrix' \in SeqsUpTo(ColsFrom(0, FloatClearVals, MaxClearLen),
                            MaxClearCols)
    /\ pivot_entry' \in {clearor'[i] : i \in 1..Len(clearor')}
    /\ col_ind_2clear' \in SeqsUpTo(0..Len(matrix'), MaxInds)
    /\ matrix0' = matrix'
    /\ pc' = "cc_called"
    /\ UNCHANGED <<ring, pivot_hash, clearee_count, clearee, clearee0, buffer,
                   last_divisor, hitVars>>

NextClearColsFloat ==
    \/ CC_Call
    \/ CC_CallFloat
    \/ CC_Run

SpecClearColsFloat == Init /\ [][NextClearColsFloat]_vars

\* s is sorted strictly ascending by key
StrictlyKeySorted(s) == \A i \in 1..(Len(s) - 1) : key(s[i]) < key(s[i + 1])

\* the pivot entry is an entry of the clearor with a non-zero value, and the
\* clearor and every column are sorted strictly ascending by key
PivotInClearor ==
    /\ \E i \in 1..Len(clearor) : clearor[i] = pivot_entry
    /\ ~is_0(ring, val(pivot_entry))
    /\ StrictlyKeySorted(clearor)
    /\ \A c \in 1..Len(matrix0) : StrictlyKeySorted(matrix0[c])

\* the matrix with clear_if_in applied once to every column whose index
\* col_ind_2clear yields, whatever the order and the number of the yields
ClearedOnce ==
    [c \in 1..Len(matrix0) |->
        IF Occurrences(col_ind_2clear, c - 1) > 0
        THEN ClearIfIn(ring, clearor, matrix0[c], <<>>, pivot_entry).clearee
        ELSE matrix0[c]]

\* clearing every yielded column of the returned matrix once more changes
\* nothing
ClearedAgainUnchanged ==
    \A c \in 1..Len(matrix) :
        Occurrences(col_ind_2clear, c - 1) > 0
            => ClearIfIn(ring, clearor, matrix[c], <<>>, pivot_entry).clearee
                   = matrix[c]

\* C30 as stated: when the pivot entry is a non-zero entry of the clearor and
\* all columns are sorted strictly ascending by key, the matrix clear_cols
\* produces depends only on the set of indices col_ind_2clear yields, not on
\* their order or repetition, and clearing a column a second time leaves it
\* unchanged.
C30_ClearColsIgnoresOrderAndRepeats ==
    (pc = "cc_returned" /\ PivotInClearor)
        => /\ matrix = ClearedOnce
           /\ ClearedAgainUnchanged

\* a + p * (-a / p) is zero in the ring: the scaled pivot entry cancels a
Cancels(r, a, p) ==
    is_0(r, add(r, a, multiply(r, p, divide(r, negate(r, a), p))))

\* every column to clear that has an entry at the pivot key has one that the
\* scaled pivot entry cancels exactly
TargetsCancel ==
    \A c \in 1..Len(matrix0) :
        LET i == FindEntry(matrix0[c], key(pivot_entry))
        IN  (Occurrences(col_ind_2clear, c - 1) > 0 /\ i # 0)
                => Cancels(ring, val(matrix0[c][i]), val(pivot_entry))

\* C30 amended: when, in addition, the ring arithmetic cancels every target
\* exactly (a + p * (-a / p) is zero, as in every field but not for all f64
\* values), the matrix clear_cols produces depends only on the set of
\* indices col_ind_2clear yields, and clearing a column a second time leaves
\* it unchanged.
C30_ExactClearColsIgnoresOrderAndRepeats ==
    (pc = "cc_returned" /\ PivotInClearor /\ TargetsCancel)
        => /\ matrix = ClearedOnce
           /\ ClearedAgainUnchanged

C30_Witness ==
    /\ pc = "cc_returned"
    /\ PivotInClearor
    /\ TargetsCancel
    /\ ring = "Z3"
    /\ Len(matrix0) = 2
    /\ col_ind_2clear = <<1, 1>>
    /\ matrix0[2] # <<>>
    /\ matrix[2] = <<>>

\* the index order is reversed and both columns are cleared, over f64 with
\* targets that cancel
C30_WitnessOrder ==
    /\ pc = "cc_returned"
    /\ PivotInClearor
    /\ TargetsCancel
    /\ ring = "Float"
    /\ col_ind_2clear = <<1, 0>>
    /\ matrix0[1] # matrix[1]
    /\ matrix0[2] # matrix[2]

====
